---- MODULE Spec2Model ----
(***************************************************************************)
(* Model of the extraction-and-merge pipeline of app.py: the /process      *)
(* request handler, the document router extract_document_data, the text    *)
(* extractor chain (Mistral primary, OpenAI fallback), the vision          *)
(* extractors, the PDF rasterizer and the record merge.                    *)
(*                                                                         *)
(* External collaborators (the PDF reader, the two providers, the two      *)
(* rendering backends, the image decoder, the storage table) answer        *)
(* nondeterministically: every step that calls one draws its answer with   *)
(* \E from the set of answers that collaborator can give.                  *)
(***************************************************************************)
EXTENDS Integers, Sequences, FiniteSets, TLC

VARIABLES
    openai_client,        \* app.py:54   TRUE iff OPENAI_API_KEY was set
    mistral_client,       \* app.py:58   TRUE iff the Mistral client was built
    pc,                   \* position of the /process request
    role,                 \* which loop called extract_document_data
    partner_count,        \* process: partner_count
    i,                    \* process: loop index over partners
    ndocs,                \* files of the request taken so far
    partners_data,        \* process: list of finished partner records
    partner_info,         \* process: the accumulating partner record
    company_data,         \* process: the accumulating company record
    filepath,             \* saved upload being processed (dot-separated segments)
    text,                 \* extract_document_data: text
    result,               \* extract_document_data: result of the first extractor tried
    img_path,             \* raster image path returned by convert_pdf_to_image
    extracted,            \* value returned to process by the extraction call
    calls,                \* functions called for the current document, in order
    last,                 \* the most recent of those calls, in full
    disk,                 \* files present in the upload folder
    contracts,            \* rows of the storage table 'contracts'
    form,                 \* what process hands to form.html
    args,                 \* a function called on its own: its name and arguments
    returned              \* that function's locals and what it returned

vars == <<openai_client, mistral_client, pc, role, partner_count, i, ndocs, partners_data,
          partner_info, company_data, filepath, text, result, img_path,
          extracted, calls, last, disk, contracts, form, args, returned>>

config == <<openai_client, mistral_client>>

----------------------------------------------------------------------------
(* Bounds of the model *)

MaxPartners == 2      \* partner_count explored up to this value
MaxDocs == 2          \* files uploaded with one request
MaxPages == 1         \* pages of an uploaded PDF

(* Program constant *)
TEXT_THRESHOLD == 500

----------------------------------------------------------------------------
(* Python values: None, str, int.  One record shape for all three. *)

PyNone == [t |-> "none", s |-> "", n |-> 0]
PyStr(s) == [t |-> "str", s |-> s, n |-> 0]
PyInt(n) == [t |-> "int", s |-> "", n |-> n]

\* Python truthiness of a scalar
Truthy(v) == CASE v.t = "none" -> FALSE
               [] v.t = "str" -> v.s # ""
               [] v.t = "int" -> v.n # 0

\* A dict is a function from its keys (strings) to values.
EmptyDict == [k \in {} |-> PyNone]
DictLen(d) == Cardinality(DOMAIN d)
\* d.get(k) with the default None
Get(d, k) == IF k \in DOMAIN d THEN d[k] ELSE PyNone

\* A merge in which a non-empty value of A is never overwritten
dict_update_keep_existing(A, B) ==
    [k \in DOMAIN A \cup DOMAIN B |->
        IF k \in DOMAIN A /\ A[k] # PyNone /\ A[k] # PyStr("") THEN A[k]
        ELSE IF k \in DOMAIN B THEN B[k] ELSE A[k]]

\* A.update(B): every key of B is set in A to B's value
dict_update(A, B) ==
    [k \in DOMAIN A \cup DOMAIN B |-> IF k \in DOMAIN B THEN B[k] ELSE A[k]]

----------------------------------------------------------------------------
(* Inputs *)

\* JSON objects a provider may answer with
ReplyDicts ==
    {EmptyDict,
     [name |-> PyStr("Ana")],
     [name |-> PyNone],
     [name |-> PyStr("")],
     [name |-> PyStr("Bia"), id |-> PyStr("9")],
     [company_name |-> PyStr("Acme LTDA")]}

\* Uploaded file names, as their dot-separated segments; <<>> is the empty
\* file name of an unused file input
Filenames == {<<"rg", "pdf">>, <<"rg", "PDF">>, <<"foto", "jpg">>,
              <<"foto", "jpeg">>, <<"foto", "PNG">>, <<"notas", "txt">>,
              <<"semext">>}
NoFilename == <<>>

\* str.lower() on a file-name segment
Lower(s) == CASE s = "PDF" -> "pdf"
              [] s = "PNG" -> "png"
              [] OTHER -> s

\* filepath.lower().split('.')[-1]
ext_of(path) == Lower(path[Len(path)])

\* every file that is not a PDF is taken for an image
is_image_ext_any(ext) == ext # "pdf"

\* elif ext in ['jpg', 'jpeg', 'png']
is_image_ext(ext) == ext \in {"jpg", "jpeg", "png"}

\* os.path.join(UPLOAD_FOLDER, f"{prefix}{file.filename}")
upload_path(prefix, filename) == <<prefix \o filename[1]>> \o Tail(filename)

\* A path that is None
NoPath == <<>>

\* No function is being called on its own
NoArgs == [fn |-> ""]
NoReturn == [at |-> "start"]

\* filepath.replace('.pdf', '_page1.png'): every ".pdf" in the path becomes
\* "_page1.png" (the match is case-sensitive)
RECURSIVE replace_pdf(_)
replace_pdf(path) ==
    IF Len(path) <= 1 THEN path
    ELSE LET front == replace_pdf(SubSeq(path, 1, Len(path) - 1))
             seg == path[Len(path)]
         IN IF seg = "pdf"
            THEN SubSeq(front, 1, Len(front) - 1)
                 \o <<front[Len(front)] \o "_page1", "png">>
            ELSE front \o <<seg>>

----------------------------------------------------------------------------
(* Text Layer Extractor *)

\* A text is described by its leading whitespace, its body (from the first to
\* the last non-whitespace character) and its trailing whitespace.
EmptyText == [lead |-> 0, body |-> 0, trail |-> 0]
TextLen(txt) == txt.lead + txt.body + txt.trail

\* Page texts of an uploaded PDF: the length of the page's text (no
\* surrounding whitespace), or NoText when page.extract_text() yields None
NoText == -1
PageLens == {10, 500, 501, 5000}
PdfFiles == [readable : BOOLEAN,
             pages : UNION {[1..n -> PageLens \cup {NoText}] : n \in 0..MaxPages}]

\* text += page.extract_text() + "\n"
append_page(txt, len) ==
    IF len = 0
    THEN IF txt.body = 0 THEN [txt EXCEPT !.lead = @ + 1]
                         ELSE [txt EXCEPT !.trail = @ + 1]
    ELSE IF txt.body = 0 THEN [txt EXCEPT !.body = len, !.trail = 1]
                         ELSE [txt EXCEPT !.body = @ + txt.trail + len, !.trail = 1]

RECURSIVE concat_pages(_, _)
concat_pages(pages, txt) ==
    IF pages = <<>> THEN txt
    ELSE concat_pages(Tail(pages), append_page(txt, Head(pages)))

extract_text_from_pdf(pdf) ==
    IF ~pdf.readable \/ \E p \in DOMAIN pdf.pages : pdf.pages[p] = NoText
    THEN EmptyText                      \* except Exception: return ""
    ELSE concat_pages(pdf.pages, EmptyText)

\* len(text) instead of len(text.strip())
text_length_unstripped(txt) == TextLen(txt)

\* len(text.strip()) if text else 0
text_length(txt) == IF TextLen(txt) = 0 THEN 0 ELSE txt.body

\* if text_length > 500
is_text_based(len) == len > TEXT_THRESHOLD

----------------------------------------------------------------------------
(* Provider replies and what the extractors return *)

\* What a function returns: a dict, None, or an exception that leaves it
Ret(d) == [exc |-> "", none |-> FALSE, d |-> d]
RetNone == [exc |-> "", none |-> TRUE, d |-> EmptyDict]
Raise(e) == [exc |-> e, none |-> FALSE, d |-> EmptyDict]
\* Python truthiness of a returned value
RetTruthy(r) == ~r.none /\ DictLen(r.d) > 0

\* A chat-completion call: it raises, or its message content is None, or text
\* that is not JSON, or text without any {...} object, or a JSON object
OpenAIReplies ==
    {[kind |-> k, obj |-> EmptyDict] : k \in {"raise", "null", "malformed"}}
    \cup {[kind |-> "object", obj |-> d] : d \in ReplyDicts}
MistralReplies ==
    OpenAIReplies \cup {[kind |-> "nojson", obj |-> EmptyDict]}

\* json.loads(content)
json_loads(reply) ==
    CASE reply.kind = "null" -> Raise("TypeError")
      [] reply.kind = "malformed" -> Raise("JSONDecodeError")
      [] reply.kind = "nojson" -> Raise("JSONDecodeError")
      [] OTHER -> Ret(reply.obj)

\* One call, as recorded in last: the function, the argument it was given
\* ("text", "filepath" or "img_path"), the exception its try block raised
\* (caught), what it returned (exc, none, d), whether the provider was
\* called, whether a base64 payload was built, released (del) and followed by
\* gc.collect(), the mime type sent (normalized: the payload came from the
\* image normalizer), the rendering backends tried, and the provider's answer
NoReply == [kind |-> "none", obj |-> EmptyDict]
Call(fn, arg, caught, ret, called, built, released, collected, mime, backends) ==
    [fn |-> fn, arg |-> arg, caught |-> caught, exc |-> ret.exc,
     none |-> ret.none, d |-> ret.d, called |-> called, built |-> built,
     released |-> released, collected |-> collected, mime |-> mime,
     normalized |-> FALSE, backends |-> backends, reply |-> NoReply]
NoCall == Call("", "", "", [exc |-> "", none |-> TRUE, d |-> EmptyDict],
               FALSE, FALSE, FALSE, FALSE, "", <<>>)
\* The record of a call together with what its provider answers; a client
\* that was never configured has no provider behind it
Answered(c, client, reply) ==
    [c EXCEPT !.reply = IF client THEN reply ELSE NoReply]
TextCall(fn, caught, ret, called) ==
    Call(fn, "text", caught, ret, called, FALSE, FALSE, FALSE, "", <<>>)
\* calls.append: the function and its argument
Log(log, c) == Append(log, <<c.fn, c.arg>>)
RetOf(c) == [exc |-> c.exc, none |-> c.none, d |-> c.d]

----------------------------------------------------------------------------
(* Structured-Field Extractor (Text): primary and fallback *)

extract_data_with_mistral_chat(txt, reply) ==
    IF ~mistral_client \/ TextLen(txt) = 0
    THEN TextCall("extract_data_with_mistral_chat", "", RetNone, FALSE)
    ELSE LET body ==
                CASE reply.kind = "raise" -> Raise("ProviderError")
                     \* content[:300] on a content that is None
                  [] reply.kind = "null" -> Raise("TypeError")
                     \* re.search finds no {...}: return {}
                  [] reply.kind = "nojson" -> Ret(EmptyDict)
                  [] OTHER -> json_loads(reply)
             \* except Exception: return None
             ret == IF body.exc # "" THEN RetNone ELSE body
         IN TextCall("extract_data_with_mistral_chat", body.exc, ret, TRUE)

\* extract_data_with_ai guarded by the other provider's client
extract_data_with_ai_wrong_client(txt, reply) ==
    IF ~mistral_client \/ TextLen(txt) = 0
    THEN TextCall("extract_data_with_ai", "", Ret(EmptyDict), FALSE)
    ELSE LET body == IF reply.kind = "raise" THEN Raise("ProviderError")
                     ELSE json_loads(reply)
             ret == IF body.exc # "" THEN Ret(EmptyDict) ELSE body
         IN TextCall("extract_data_with_ai", body.exc, ret, TRUE)

\* extract_data_with_ai catching only json.JSONDecodeError
extract_data_with_ai_json_only(txt, reply) ==
    IF ~openai_client \/ TextLen(txt) = 0
    THEN TextCall("extract_data_with_ai", "", Ret(EmptyDict), FALSE)
    ELSE LET body == IF reply.kind = "raise" THEN Raise("ProviderError")
                     ELSE json_loads(reply)
             ret == IF body.exc = "JSONDecodeError" THEN Ret(EmptyDict) ELSE body
         IN TextCall("extract_data_with_ai", body.exc, ret, TRUE)

extract_data_with_ai(txt, reply) ==
    IF ~openai_client \/ TextLen(txt) = 0
    THEN TextCall("extract_data_with_ai", "", Ret(EmptyDict), FALSE)
    ELSE LET body == IF reply.kind = "raise" THEN Raise("ProviderError")
                     ELSE json_loads(reply)
             \* except json.JSONDecodeError / except Exception: return {}
             ret == IF body.exc # "" THEN Ret(EmptyDict) ELSE body
         IN TextCall("extract_data_with_ai", body.exc, ret, TRUE)

\* the primary's result is kept only when it has more than one key
mistral_succeeded_two_keys(r) == ~r.none /\ DictLen(r.d) > 1

\* if result is not None and len(result) > 0
mistral_succeeded(r) == ~r.none /\ DictLen(r.d) > 0

----------------------------------------------------------------------------
(* Image Normalizer and Structured-Field Extractor (Vision) *)

\* An image file as the decoder sees it: whether it can be opened at all and
\* whether PIL can decode it
ImageFiles == {f \in [readable : BOOLEAN, decodable : BOOLEAN] :
                 f.decodable => f.readable}

\* compress_image_for_api: (result, 'image/jpeg'), or (None, None) when any
\* step raises
compress_image_for_api(img) ==
    IF img.readable /\ img.decodable
    THEN [base64_image |-> TRUE, mime_type |-> "image/jpeg"]
    ELSE [base64_image |-> FALSE, mime_type |-> ""]

\* f"image/{ext}" for every extension
original_mime_any_ext(path) == "image/" \o ext_of(path)

\* mime type of the unmodified original file
original_mime(path) ==
    LET ext == ext_of(path)
    IN IF ext = "jpg" THEN "image/jpeg"
       ELSE IF ext \in {"png", "jpg", "jpeg"} THEN "image/" \o ext
       ELSE "image/jpeg"

\* The try block shared by the two vision extractors, up to json.loads:
\* [ret, called, built, mime, normalized]
vision_try(path, img, reply) ==
    LET c == compress_image_for_api(img)
    IN IF ~c.base64_image /\ ~img.readable
       THEN \* open(filepath, "rb") raises
            [ret |-> Raise("FileNotFoundError"), called |-> FALSE,
             built |-> FALSE, mime |-> "", normalized |-> FALSE]
       ELSE [ret |-> IF reply.kind = "raise" THEN Raise("ProviderError")
                     ELSE json_loads(reply),
             called |-> TRUE, built |-> TRUE,
             mime |-> IF c.base64_image THEN c.mime_type ELSE original_mime(path),
             normalized |-> c.base64_image]

\* extract_data_from_image without the except Exception clause
extract_data_from_image_no_catch_all(arg, path, img, reply) ==
    IF ~openai_client
    THEN Call("extract_data_from_image", arg, "", Ret(EmptyDict), FALSE, FALSE,
              FALSE, FALSE, "", <<>>)
    ELSE LET t == vision_try(path, img, reply)
             ok == t.ret.exc = ""
             ret == IF t.ret.exc \in {"JSONDecodeError", "FileNotFoundError"}
                    THEN Ret(EmptyDict) ELSE t.ret
         IN [Call("extract_data_from_image", arg, t.ret.exc, ret, t.called,
                  t.built, ok, ok, t.mime, <<>>)
             EXCEPT !.normalized = t.normalized]

extract_data_from_image(arg, path, img, reply) ==
    IF ~openai_client
    THEN Call("extract_data_from_image", arg, "", Ret(EmptyDict), FALSE, FALSE,
              FALSE, FALSE, "", <<>>)
    ELSE LET t == vision_try(path, img, reply)
             \* del base64_image; gc.collect() follow json.loads only
             ok == t.ret.exc = ""
             \* except JSONDecodeError / FileNotFoundError / Exception: return {}
             ret == IF ~ok THEN Ret(EmptyDict) ELSE t.ret
         IN [Call("extract_data_from_image", arg, t.ret.exc, ret, t.called,
                  t.built, ok, ok, t.mime, <<>>)
             EXCEPT !.normalized = t.normalized]

extract_address_from_proof(arg, path, img, reply) ==
    IF ~openai_client
    THEN Call("extract_address_from_proof", arg, "", Ret(EmptyDict), FALSE, FALSE,
              FALSE, FALSE, "", <<>>)
    ELSE LET t == vision_try(path, img, reply)
             \* except JSONDecodeError / FileNotFoundError / Exception: return {}
             ret == IF t.ret.exc # "" THEN Ret(EmptyDict) ELSE t.ret
             \* no del and no gc.collect() on any path
         IN [Call("extract_address_from_proof", arg, t.ret.exc, ret, t.called,
                  t.built, FALSE, FALSE, t.mime, <<>>)
             EXCEPT !.normalized = t.normalized]

----------------------------------------------------------------------------
(* PDF Page Rasterizer *)

\* What a rendering backend does when asked for page 1: "unavailable" when
\* its import failed at start-up (PDF2IMAGE_AVAILABLE, FITZ_AVAILABLE False)
Pdf2ImageOutcomes == {"unavailable", "raise", "empty", "ok"}
FitzOutcomes == {"unavailable", "raise", "nopages", "nofile", "ok"}

\* convert_pdf_to_image: [img_path, written, backends, exc]; written is the
\* set of files it wrote, exc an exception that leaves it

\* the second backend tried only when the first is unavailable
convert_pdf_to_image_elif(path, o1, o2) ==
    LET target == replace_pdf(path)
    IN IF o1 = "ok"
       THEN [img_path |-> target, written |-> {target},
             backends |-> <<"pdf2image">>, exc |-> ""]
       ELSE IF o1 # "unavailable"
       THEN [img_path |-> NoPath, written |-> {}, backends |-> <<"pdf2image">>,
             exc |-> ""]
       ELSE IF o2 = "ok"
       THEN [img_path |-> target, written |-> {target}, backends |-> <<"fitz">>,
             exc |-> ""]
       ELSE [img_path |-> NoPath, written |-> {},
             backends |-> IF o2 = "unavailable" THEN <<>> ELSE <<"fitz">>,
             exc |-> ""]

convert_pdf_to_image(path, o1, o2) ==
    LET target == replace_pdf(path)
        first == o1 # "unavailable"
        tried1 == IF first THEN <<"pdf2image">> ELSE <<>>
    IN IF first /\ o1 = "ok"
       THEN [img_path |-> target, written |-> {target}, backends |-> tried1,
             exc |-> ""]
       ELSE IF o2 = "unavailable"
       THEN [img_path |-> NoPath, written |-> {}, backends |-> tried1,
             exc |-> ""]
       ELSE IF o2 = "ok"
       THEN [img_path |-> target, written |-> {target},
             backends |-> Append(tried1, "fitz"), exc |-> ""]
       ELSE \* page_count < 1, an exception, or no file after pix.save
            [img_path |-> NoPath, written |-> {},
             backends |-> Append(tried1, "fitz"), exc |-> ""]

----------------------------------------------------------------------------
(* Address Composer, as written in process *)

\* JSON objects the address-proof extractor may answer with
AddrDicts ==
    {EmptyDict,
     [full_address |-> PyStr("Rua B, 20")],
     [full_address |-> PyStr(""), street |-> PyStr("Rua A"), number |-> PyStr("10")],
     [street |-> PyStr("Rua A"), number |-> PyStr("10")],
     [street |-> PyStr("Rua A"), city |-> PyStr("SP"), zip_code |-> PyStr("01000")],
     [street |-> PyNone, number |-> PyStr("10")]}
AddrReplies ==
    {[kind |-> k, obj |-> EmptyDict] : k \in {"raise", "null", "malformed"}}
    \cup {[kind |-> "object", obj |-> d] : d \in AddrDicts}

\* d.get(k, default)
GetDefault(d, k, default) == IF k \in DOMAIN d THEN d[k] ELSE default

\* f"{v}"
Format(v) == CASE v.t = "none" -> "None"
               [] v.t = "str" -> v.s
               [] v.t = "int" -> ToString(v.n)

\* ', '.join(parts) for a list of str values
RECURSIVE join_comma(_)
join_comma(parts) ==
    IF parts = <<>> THEN ""
    ELSE IF Len(parts) = 1 THEN parts[1].s
    ELSE parts[1].s \o ", " \o join_comma(Tail(parts))

\* full_address is used only when there is no street
use_full_address_without_street(addr_data) ==
    Truthy(Get(addr_data, "full_address")) /\ ~Truthy(Get(addr_data, "street"))

\* if addr_data.get('full_address')
use_full_address(addr_data) == Truthy(Get(addr_data, "full_address"))

\* p for p in parts if p and p != '/' and p != 'CEP '
kept_parts(parts) ==
    SelectSeq(parts, LAMBDA q : Truthy(q) /\ q # PyStr("/") /\ q # PyStr("CEP "))

\* process, lines 709-724: the new value of partner_info['address'], given
\* a truthy addr_data; [exc, value, set, parts]: set tells whether the
\* address was assigned, parts is the list that was joined
compose_address_process(addr_data, current) ==
    IF use_full_address(addr_data)
    THEN [exc |-> "", value |-> addr_data["full_address"], set |-> TRUE,
          parts |-> <<addr_data["full_address"]>>]
    ELSE IF Truthy(Get(addr_data, "street"))
    THEN LET parts == <<GetDefault(addr_data, "street", PyStr("")),
                        GetDefault(addr_data, "number", PyStr("")),
                        GetDefault(addr_data, "complement", PyStr("")),
                        GetDefault(addr_data, "neighborhood", PyStr("")),
                        PyStr(Format(GetDefault(addr_data, "city", PyStr("")))
                              \o "/"
                              \o Format(GetDefault(addr_data, "state", PyStr("")))),
                        PyStr("CEP "
                              \o Format(GetDefault(addr_data, "zip_code", PyStr(""))))>>
             kept == kept_parts(parts)
         IN IF \E n \in DOMAIN kept : kept[n].t # "str"
            THEN \* str.join on a non-str
                 [exc |-> "TypeError", value |-> current, set |-> FALSE,
                  parts |-> kept]
            ELSE [exc |-> "", value |-> PyStr(join_comma(kept)), set |-> TRUE,
                  parts |-> kept]
    ELSE [exc |-> "", value |-> current, set |-> FALSE, parts |-> <<>>]

\* extract_single_document, lines 1100-1114: extracted_data['address'],
\* given a truthy addr_data; an exception is caught at line 1120 and leaves
\* extracted_data without an address
compose_address_single(addr_data) ==
    IF use_full_address(addr_data)
    THEN [exc |-> "", value |-> addr_data["full_address"], set |-> TRUE,
          parts |-> <<addr_data["full_address"]>>]
    ELSE IF Truthy(Get(addr_data, "street"))
    THEN LET parts == <<GetDefault(addr_data, "street", PyStr("")),
                        GetDefault(addr_data, "number", PyStr("")),
                        GetDefault(addr_data, "complement", PyStr("")),
                        GetDefault(addr_data, "neighborhood", PyStr("")),
                        IF Truthy(Get(addr_data, "city"))
                        THEN PyStr(Format(GetDefault(addr_data, "city", PyStr("")))
                                   \o "/"
                                   \o Format(GetDefault(addr_data, "state", PyStr(""))))
                        ELSE PyStr(""),
                        IF Truthy(Get(addr_data, "zip_code"))
                        THEN PyStr("CEP "
                                   \o Format(GetDefault(addr_data, "zip_code", PyStr(""))))
                        ELSE PyStr("")>>
             kept == kept_parts(parts)
         IN IF \E n \in DOMAIN kept : kept[n].t # "str"
            THEN [exc |-> "", value |-> PyStr(""), set |-> FALSE, parts |-> kept]
            ELSE [exc |-> "", value |-> PyStr(join_comma(kept)), set |-> TRUE,
                  parts |-> kept]
    ELSE [exc |-> "", value |-> PyStr(""), set |-> FALSE, parts |-> <<>>]

----------------------------------------------------------------------------
(* The /process request *)

\* int(request.form.get('partner_count', 2)), clamped; 2 when it does not parse
PartnerCountInputs == {PyStr("abc")} \cup {PyInt(n) : n \in 0..MaxPartners}
parse_partner_count(raw) ==
    IF raw.t # "int" THEN 2
    ELSE LET lo == IF raw.n < 10 THEN raw.n ELSE 10
         IN IF lo > 1 THEN lo ELSE 1

\* process, lines 644-657
new_partner_info(idx) ==
    [k \in {"id", "name", "nationality", "civil_state", "regime", "profession",
            "birth_date", "cpf", "address", "quotas", "amount", "percent"} |->
        IF k = "id" THEN PyInt(idx) ELSE PyStr("")]

NoForm == [rendered |-> FALSE, partners |-> <<>>, company |-> EmptyDict,
           contract_id |-> 0, partner_count |-> 0]

Init ==
    /\ openai_client \in BOOLEAN
    /\ mistral_client \in BOOLEAN
    /\ pc = "idle"
    /\ role = ""
    /\ partner_count = 0
    /\ i = 0
    /\ ndocs = 0
    /\ partners_data = <<>>
    /\ partner_info = EmptyDict
    /\ company_data = EmptyDict
    /\ filepath = NoPath
    /\ text = EmptyText
    /\ result = RetNone
    /\ img_path = NoPath
    /\ extracted = RetNone
    /\ calls = <<>>
    /\ last = NoCall
    /\ disk = {}
    /\ contracts = <<>>
    /\ form = NoForm
    /\ args = NoArgs
    /\ returned = NoReturn

\* process, lines 627-632 and the first partner_info of the loop
process_begin ==
    /\ pc = "idle"
    /\ \E raw \in PartnerCountInputs :
         partner_count' = parse_partner_count(raw)
    /\ partners_data' = <<>>
    /\ company_data' = EmptyDict
    /\ i' = 0
    /\ partner_info' = new_partner_info(0)
    /\ ndocs' = 0
    /\ pc' = "identity_loop"
    /\ UNCHANGED <<config, args, returned, role, filepath, text, result, img_path, extracted,
                   calls, last, disk, contracts, form>>

\* The locals of a finished loop iteration are dead: nothing reads them again
forget_document ==
    /\ role' = ""
    /\ filepath' = NoPath
    /\ text' = EmptyText
    /\ result' = RetNone
    /\ img_path' = NoPath
    /\ extracted' = RetNone
    /\ calls' = <<>>
    /\ last' = NoCall

\* file.save(filepath) and the call of extract_document_data(filepath)
save_and_extract(path, caller) ==
    /\ filepath' = path
    /\ disk' = disk \cup {path}
    /\ role' = caller
    /\ text' = EmptyText
    /\ result' = RetNone
    /\ img_path' = NoPath
    /\ extracted' = RetNone
    /\ calls' = <<>>
    /\ last' = NoCall
    /\ pc' = "route"

\* for file in files (lines 662-669): the next identity file of partner i
identity_file ==
    /\ pc = "identity_loop"
    /\ ndocs < MaxDocs
    /\ ndocs' = ndocs + 1
    /\ \E filename \in Filenames \cup {NoFilename} :
         IF filename = NoFilename
         THEN forget_document /\ UNCHANGED <<pc, disk>>
         ELSE save_and_extract(upload_path("p" \o ToString(i) \o "_", filename),
                               "identity")
    /\ UNCHANGED <<config, args, returned, partner_count, i, partners_data, partner_info,
                   company_data, contracts, form>>

\* the identity files of partner i are exhausted
identity_end ==
    /\ pc = "identity_loop"
    /\ pc' = "address_loop"
    /\ forget_document
    /\ UNCHANGED <<config, args, returned, partner_count, i, ndocs, partners_data, partner_info,
                   company_data, disk, contracts, form>>

----------------------------------------------------------------------------
(* Document Router: extract_document_data *)

UNCHANGED_process == UNCHANGED <<config, args, returned, role, partner_count, i, ndocs,
                                 partners_data, partner_info, company_data,
                                 filepath, contracts, form>>

\* lines 457-466 and 495-501: the extension, the text layer, the path taken
route ==
    /\ pc = "route"
    /\ LET ext == ext_of(filepath)
       IN IF ext = "pdf"
          THEN \E pdf \in PdfFiles :
                 /\ text' = extract_text_from_pdf(pdf)
                 /\ pc' = IF is_text_based(text_length(text'))
                          THEN "mistral" ELSE "rasterize"
                 /\ UNCHANGED extracted
          ELSE IF is_image_ext(ext)
          THEN /\ pc' = "vision_direct"
               /\ UNCHANGED <<text, extracted>>
          ELSE /\ extracted' = Ret(EmptyDict)
               /\ pc' = "return"
               /\ UNCHANGED text
    /\ UNCHANGED <<result, img_path, calls, last, disk>>
    /\ UNCHANGED_process

\* lines 470-473: the primary text model
call_mistral ==
    /\ pc = "mistral"
    /\ \E reply \in MistralReplies :
         LET c == extract_data_with_mistral_chat(text, reply)
         IN /\ calls' = Log(calls, c)
            /\ last' = Answered(c, mistral_client, reply)
            /\ result' = RetOf(c)
            /\ IF c.exc # ""
               THEN pc' = "error" /\ UNCHANGED extracted
               ELSE IF mistral_succeeded(RetOf(c))
               THEN pc' = "return" /\ extracted' = RetOf(c)
               ELSE pc' = "openai_text" /\ UNCHANGED extracted
    /\ UNCHANGED <<text, img_path, disk>>
    /\ UNCHANGED_process

\* line 477: the fallback text model
call_openai_text ==
    /\ pc = "openai_text"
    /\ \E reply \in OpenAIReplies :
         LET c == extract_data_with_ai(text, reply)
         IN /\ calls' = Log(calls, c)
            /\ last' = Answered(c, openai_client, reply)
            /\ extracted' = RetOf(c)
            /\ pc' = IF c.exc # "" THEN "error" ELSE "return"
    /\ UNCHANGED <<text, result, img_path, disk>>
    /\ UNCHANGED_process

\* line 483: img_path = convert_pdf_to_image(filepath)
rasterize ==
    /\ pc = "rasterize"
    /\ \E o1 \in Pdf2ImageOutcomes, o2 \in FitzOutcomes :
         LET r == convert_pdf_to_image(filepath, o1, o2)
             c == Call("convert_pdf_to_image", "filepath", "",
                       IF r.img_path = NoPath THEN RetNone ELSE Ret(EmptyDict),
                       FALSE, FALSE, FALSE, FALSE, "", r.backends)
         IN /\ img_path' = r.img_path
            /\ disk' = disk \cup r.written
            /\ calls' = Log(calls, c)
            /\ last' = c
            /\ pc' = IF r.img_path # NoPath THEN "vision_img" ELSE "vision_pdf"
    /\ UNCHANGED <<text, result, extracted>>
    /\ UNCHANGED_process

\* lines 484-487: the vision extractor on the raster image
vision_on_image ==
    /\ pc = "vision_img"
    /\ \E img \in ImageFiles, reply \in OpenAIReplies :
         LET c == extract_data_from_image("img_path", img_path, img, reply)
         IN /\ calls' = Log(calls, c)
            /\ last' = Answered(c, openai_client, reply)
            /\ result' = RetOf(c)
            /\ IF c.exc # ""
               THEN pc' = "error" /\ UNCHANGED extracted
               ELSE IF RetTruthy(RetOf(c))
               THEN pc' = "return" /\ extracted' = RetOf(c)
               ELSE pc' = "vision_pdf" /\ UNCHANGED extracted
    /\ UNCHANGED <<text, img_path, disk>>
    /\ UNCHANGED_process

\* line 493: return extract_data_from_image(filepath) on the PDF itself
vision_on_pdf ==
    /\ pc = "vision_pdf"
    /\ \E img \in ImageFiles, reply \in OpenAIReplies :
         LET c == extract_data_from_image("filepath", filepath, img, reply)
         IN /\ calls' = Log(calls, c)
            /\ last' = Answered(c, openai_client, reply)
            /\ extracted' = RetOf(c)
            /\ pc' = IF c.exc # "" THEN "error" ELSE "return"
    /\ UNCHANGED <<text, result, img_path, disk>>
    /\ UNCHANGED_process

\* line 498: an image file goes to the vision extractor directly
vision_direct ==
    /\ pc = "vision_direct"
    /\ \E img \in ImageFiles, reply \in OpenAIReplies :
         LET c == extract_data_from_image("filepath", filepath, img, reply)
         IN /\ calls' = Log(calls, c)
            /\ last' = Answered(c, openai_client, reply)
            /\ extracted' = RetOf(c)
            /\ pc' = IF c.exc # "" THEN "error" ELSE "return"
    /\ UNCHANGED <<text, result, img_path, disk>>
    /\ UNCHANGED_process

----------------------------------------------------------------------------
(* Record Merger and the rest of process *)

\* os.remove(path) inside try/except
os_remove(files, path) == files \ {path}

\* lines 670-679: if extracted: partner_info.update(extracted); os.remove
merge_identity ==
    /\ pc = "return"
    /\ role = "identity"
    /\ partner_info' = IF RetTruthy(extracted)
                       THEN dict_update(partner_info, extracted.d)
                       ELSE partner_info
    /\ disk' = os_remove(disk, filepath)
    /\ pc' = "identity_loop"
    /\ UNCHANGED <<config, args, returned, role, partner_count, i, ndocs, partners_data,
                   company_data, filepath, text, result, img_path, extracted,
                   calls, last, contracts, form>>

\* lines 750-759: if extracted: company_data.update(extracted); os.remove
merge_company ==
    /\ pc = "return"
    /\ role = "company"
    /\ company_data' = IF RetTruthy(extracted)
                       THEN dict_update(company_data, extracted.d)
                       ELSE company_data
    /\ disk' = os_remove(disk, filepath)
    /\ pc' = "company_loop"
    /\ UNCHANGED <<config, args, returned, role, partner_count, i, ndocs, partners_data,
                   partner_info, filepath, text, result, img_path, extracted,
                   calls, last, contracts, form>>

\* for addr_file in address_files (lines 682-691): the next address proof
address_file ==
    /\ pc = "address_loop"
    /\ ndocs < MaxDocs
    /\ ndocs' = ndocs + 1
    /\ \E filename \in Filenames \cup {NoFilename} :
         IF filename = NoFilename
         THEN forget_document /\ UNCHANGED <<pc, disk>>
         ELSE LET path == upload_path("addr_" \o ToString(i) \o "_", filename)
              IN /\ filepath' = path
                 /\ disk' = disk \cup {path}
                 /\ role' = "address"
                 /\ text' = EmptyText
                 /\ result' = RetNone
                 /\ img_path' = NoPath
                 /\ extracted' = RetNone
                 /\ calls' = <<>>
                 /\ last' = NoCall
                 /\ pc' = IF ext_of(path) = "pdf" THEN "addr_rasterize"
                          ELSE "addr_extract"
    /\ UNCHANGED <<config, args, returned, partner_count, i, partners_data, partner_info,
                   company_data, contracts, form>>

\* line 693: img_path = convert_pdf_to_image(addr_filepath)
address_rasterize ==
    /\ pc = "addr_rasterize"
    /\ \E o1 \in Pdf2ImageOutcomes, o2 \in FitzOutcomes :
         LET r == convert_pdf_to_image(filepath, o1, o2)
             c == Call("convert_pdf_to_image", "filepath", "",
                       IF r.img_path = NoPath THEN RetNone ELSE Ret(EmptyDict),
                       FALSE, FALSE, FALSE, FALSE, "", r.backends)
         IN /\ img_path' = r.img_path
            /\ disk' = disk \cup r.written
            /\ calls' = Log(calls, c)
            /\ last' = c
    /\ pc' = "addr_extract"
    /\ UNCHANGED <<text, result, extracted>>
    /\ UNCHANGED_process

\* lines 694-731: the address-proof extractor, the temp image removed, the
\* address composed into partner_info, the upload removed
address_extract ==
    /\ pc = "addr_extract"
    /\ \E img \in ImageFiles, reply \in AddrReplies :
         LET onimg == img_path # NoPath
             c == extract_address_from_proof(
                     IF onimg THEN "img_path" ELSE "filepath",
                     IF onimg THEN img_path ELSE filepath, img, reply)
             addr_data == c.d
             composed == IF DictLen(addr_data) > 0
                         THEN compose_address_process(addr_data,
                                                      partner_info["address"])
                         ELSE [exc |-> "", value |-> partner_info["address"]]
             cleaned == IF onimg THEN os_remove(disk, img_path) ELSE disk
         IN /\ calls' = Log(calls, c)
            /\ last' = Answered(c, openai_client, reply)
            /\ extracted' = RetOf(c)
            /\ IF c.exc # ""
               THEN /\ pc' = "error"
                    /\ UNCHANGED <<partner_info, disk>>
               ELSE IF composed.exc # ""
               THEN /\ pc' = "error"
                    /\ disk' = cleaned
                    /\ UNCHANGED partner_info
               ELSE /\ pc' = "address_loop"
                    /\ partner_info' = [partner_info EXCEPT !["address"] = composed.value]
                    /\ disk' = os_remove(cleaned, filepath)
    /\ UNCHANGED <<config, args, returned, role, partner_count, i, ndocs, partners_data,
                   company_data, filepath, text, result, img_path, contracts,
                   form>>

\* the loop over the partners ends one partner early
more_partners_but_last(idx, count) == idx + 1 < count

\* line 639: for i in range(partner_count)
more_partners(idx, count) == idx < count

\* lines 733-739: partners_data.append(partner_info), then the next partner
\* or the company documents
partner_end ==
    /\ pc = "address_loop"
    /\ partners_data' = Append(partners_data, partner_info)
    /\ i' = i + 1
    /\ IF more_partners(i + 1, partner_count)
       THEN /\ partner_info' = new_partner_info(i + 1)
            /\ pc' = "identity_loop"
       ELSE /\ UNCHANGED partner_info
            /\ pc' = "company_loop"
    /\ forget_document
    /\ UNCHANGED <<config, args, returned, partner_count, ndocs, company_data, disk, contracts, form>>

\* for file in company_files (lines 742-749)
company_file ==
    /\ pc = "company_loop"
    /\ ndocs < MaxDocs
    /\ ndocs' = ndocs + 1
    /\ \E filename \in Filenames \cup {NoFilename} :
         IF filename = NoFilename
         THEN forget_document /\ UNCHANGED <<pc, disk>>
         ELSE save_and_extract(upload_path("company_", filename), "company")
    /\ UNCHANGED <<config, args, returned, partner_count, i, partners_data, partner_info,
                   company_data, contracts, form>>

\* Answers of the storage collaborator to an insert: "unconfigured" when
\* supabase_client is None
InsertOutcomes == {"unconfigured", "raise", "nodata", "ok"}

\* lines 776-799: the draft saved, the form rendered
process_end ==
    /\ pc = "company_loop"
    /\ \E outcome \in InsertOutcomes :
         LET saved == outcome \notin {"unconfigured", "raise"}
             draft == [name |-> IF Truthy(Get(company_data, "company_name"))
                                THEN company_data["company_name"]
                                ELSE PyStr("Rascunho " \o ToString(Len(partners_data))
                                           \o " Sócios"),
                       status |-> "draft",
                       partners |-> partners_data,
                       company_data |-> company_data]
         IN /\ contracts' = IF saved THEN Append(contracts, draft) ELSE contracts
            /\ form' = [rendered |-> TRUE,
                        partners |-> partners_data,
                        company |-> company_data,
                        contract_id |-> IF saved /\ outcome = "ok"
                                        THEN Len(contracts) + 1 ELSE 0,
                        partner_count |-> Len(partners_data)]
    /\ pc' = "done"
    /\ forget_document
    /\ UNCHANGED <<config, args, returned, partner_count, i, ndocs, partners_data,
                   partner_info, company_data, disk>>

Next ==
    \/ process_begin
    \/ identity_file
    \/ identity_end
    \/ route
    \/ call_mistral
    \/ call_openai_text
    \/ rasterize
    \/ vision_on_image
    \/ vision_on_pdf
    \/ vision_direct
    \/ merge_identity
    \/ merge_company
    \/ address_file
    \/ address_rasterize
    \/ address_extract
    \/ partner_end
    \/ company_file
    \/ process_end

Spec == Init /\ [][Next]_vars

----------------------------------------------------------------------------
(* Functions called on their own: the arguments are drawn at the start, the *)
(* steps of the function follow                                              *)

process_vars == <<openai_client, mistral_client, pc, role, partner_count, i,
                  ndocs, partners_data, partner_info, company_data, filepath,
                  text, result, img_path, extracted, calls, last, disk,
                  contracts, form>>

\* The request handler is idle and no provider is configured
NoRequest ==
    /\ openai_client = FALSE
    /\ mistral_client = FALSE
    /\ pc = "idle"
    /\ role = ""
    /\ partner_count = 0
    /\ i = 0
    /\ ndocs = 0
    /\ partners_data = <<>>
    /\ partner_info = EmptyDict
    /\ company_data = EmptyDict
    /\ filepath = NoPath
    /\ text = EmptyText
    /\ result = RetNone
    /\ img_path = NoPath
    /\ extracted = RetNone
    /\ calls = <<>>
    /\ last = NoCall
    /\ disk = {}
    /\ contracts = <<>>
    /\ form = NoForm

----------------------------------------------------------------------------
(* Image Normalizer: the quality loop of compress_image_for_api *)

\* def compress_image_for_api(filepath, max_size_kb=1024, ...)
max_size_kb == 1024

\* Qualities an encoding can be asked for
Qualities == {90, 80, 70, 60, 50, 40}

\* Sizes in bytes of an encoded image: under, at and over the byte budget
EncodedSizes == {max_size_kb * 1024 - 1, max_size_kb * 1024,
                 max_size_kb * 1024 + 1}

\* An image as the normalizer sees it: whether Image.open, convert and resize
\* go through, the size of its JPEG encoding at each quality, and which call
\* of img.save raises (0: none)
MaxSaves == 5
CompressArgs ==
    [fn : {"compress_image_for_api"},
     opens : BOOLEAN,
     size_at : [Qualities -> EncodedSizes],
     save_raises : 0..MaxSaves]

\* line 160 with the loop condition turned around: quality >= 50
loop_continues_to_floor(buffer, quality) ==
    buffer > max_size_kb * 1024 /\ quality >= 50

\* line 160: while buffer.tell() > max_size_kb * 1024 and quality > 50
loop_continues(buffer, quality) ==
    buffer > max_size_kb * 1024 /\ quality > 50

\* except Exception: return None, None
compress_failed(r) ==
    [at |-> "returned", quality |-> r.quality, buffer |-> r.buffer,
     saves |-> r.saves, base64_image |-> FALSE, mime_type |-> "", exc |-> ""]

\* lines 142-157: the image opened, converted, resized, and encoded at
\* quality 90
compress_open ==
    /\ args.fn = "compress_image_for_api"
    /\ returned = NoReturn
    /\ LET r == [quality |-> 90, buffer |-> 0, saves |-> 0]
       IN IF ~args.opens
          THEN returned' = compress_failed(r)
          ELSE IF args.save_raises = 1
          THEN returned' = compress_failed([r EXCEPT !.saves = 1])
          ELSE returned' = [at |-> "loop", quality |-> 90,
                            buffer |-> args.size_at[90], saves |-> 1,
                            base64_image |-> FALSE, mime_type |-> "",
                            exc |-> ""]
    /\ UNCHANGED <<args, process_vars>>

\* lines 160-164: one iteration of the quality loop
compress_reduce ==
    /\ args.fn = "compress_image_for_api"
    /\ returned.at = "loop"
    /\ loop_continues(returned.buffer, returned.quality)
    /\ LET q == returned.quality - 10
           r == [returned EXCEPT !.quality = q, !.saves = @ + 1]
       IN IF args.save_raises = r.saves
          THEN returned' = compress_failed(r)
          ELSE returned' = [r EXCEPT !.buffer = args.size_at[q]]
    /\ UNCHANGED <<args, process_vars>>

\* lines 166-171: return result, 'image/jpeg'
compress_return ==
    /\ args.fn = "compress_image_for_api"
    /\ returned.at = "loop"
    /\ ~loop_continues(returned.buffer, returned.quality)
    /\ returned' = [returned EXCEPT !.at = "returned", !.base64_image = TRUE,
                                    !.mime_type = "image/jpeg"]
    /\ UNCHANGED <<args, process_vars>>

----------------------------------------------------------------------------
(* Contract completeness: is_contract_complete *)

\* Field values of a stored contract: None, an int, or a str given by its
\* characters
CNone == [t |-> "none", c |-> <<>>, n |-> 0]
CStr(c) == [t |-> "str", c |-> c, n |-> 0]
CInt(n) == [t |-> "int", c |-> <<>>, n |-> n]

Whitespace == {" ", "\t", "\n"}

\* str.strip()
RECURSIVE lstrip(_)
lstrip(c) == IF c # <<>> /\ Head(c) \in Whitespace THEN lstrip(Tail(c)) ELSE c
RECURSIVE rstrip(_)
rstrip(c) == IF c # <<>> /\ c[Len(c)] \in Whitespace
             THEN rstrip(SubSeq(c, 1, Len(c) - 1)) ELSE c
strip(c) == rstrip(lstrip(c))

\* str.lower(), character by character
lower_char(ch) ==
    CASE ch = "N" -> "n" [] ch = "O" -> "o" [] ch = "E" -> "e"
      [] ch = "U" -> "u" [] ch = "L" -> "l" [] ch = "A" -> "a"
      [] OTHER -> ch
lower(c) == [n \in DOMAIN c |-> lower_char(c[n])]

\* str.startswith(prefix)
startswith(c, prefix) ==
    Len(c) >= Len(prefix) /\ SubSeq(c, 1, Len(prefix)) = prefix

\* str(val) of an int
RECURSIVE digits(_)
digits(n) ==
    LET d == <<"0", "1", "2", "3", "4", "5", "6", "7", "8", "9">>[(n % 10) + 1]
    IN IF n < 10 THEN <<d>> ELSE Append(digits(n \div 10), d)

\* str(val)
str(val) == IF val.t = "int" THEN digits(val.n) ELSE val.c

\* is_empty comparing with 'none', 'null', 'undefined' without s.lower()
is_empty_case_sensitive(val) ==
    IF val.t = "none" THEN TRUE
    ELSE LET s == strip(str(val))
         IN \/ s = <<>>
            \/ s \in {<<"n", "o", "n", "e">>, <<"n", "u", "l", "l">>,
                      <<"u", "n", "d", "e", "f", "i", "n", "e", "d">>}
            \/ startswith(s, <<".", ".", ".">>)
            \/ startswith(s, <<"_", "_", "_">>)

\* lines 524-530
is_empty(val) ==
    IF val.t = "none" THEN TRUE
    ELSE LET s == strip(str(val))
         IN \/ s = <<>>
            \/ lower(s) \in {<<"n", "o", "n", "e">>, <<"n", "u", "l", "l">>,
                             <<"u", "n", "d", "e", "f", "i", "n", "e", "d">>}
            \/ startswith(s, <<".", ".", ".">>)
            \/ startswith(s, <<"_", "_", "_">>)

\* the required partner fields with 'regime' among them
required_partner_fields_with_regime ==
    <<"name", "nationality", "civil_state", "regime", "profession",
      "birth_date", "cpf", "address", "quotas", "amount", "percent">>

\* lines 509-512
required_partner_fields ==
    <<"name", "nationality", "civil_state", "profession", "birth_date", "cpf",
      "address", "quotas", "amount", "percent">>

\* lines 515-519
required_company_fields ==
    <<"company_name", "company_address", "company_object", "company_cnae_list",
      "start_date", "capital_currency", "signature_date">>

\* the partner list is never taken for empty
not_partners_never(partners) == FALSE

\* line 534: if not partners
not_partners(partners) == partners = <<>>

\* f'partner_{i + 1}_{field}'
partner_marker_one_based(idx, field) ==
    "partner_" \o ToString(idx + 1) \o "_" \o field

\* line 540: f'partner_{i}_{field}'
partner_marker(idx, field) == "partner_" \o ToString(idx) \o "_" \o field

\* line 549: f'company_{field}'
company_marker(field) == "company_" \o field

\* d.get(field) of a contract record
CGet(d, k) == IF k \in DOMAIN d THEN d[k] ELSE CNone

\* lines 538-540 for one partner: its markers, in the order of the fields
partner_missing(idx, partner) ==
    LET missing == SelectSeq(required_partner_fields,
                             LAMBDA f : is_empty(CGet(partner, f)))
    IN [n \in DOMAIN missing |-> partner_marker(idx, missing[n])]

\* lines 537-540: for i, partner in enumerate(partners)
RECURSIVE partners_missing(_, _)
partners_missing(partners, idx) ==
    IF idx >= Len(partners) THEN <<>>
    ELSE partner_missing(idx, partners[idx + 1])
         \o partners_missing(partners, idx + 1)

\* lines 543-549
company_missing(cdata) ==
    IF DOMAIN cdata = {}
    THEN <<"no_company_data">>
    ELSE LET missing == SelectSeq(required_company_fields,
                                  LAMBDA f : is_empty(CGet(cdata, f)))
         IN [n \in DOMAIN missing |-> company_marker(missing[n])]

\* is_contract_complete(contract): (is_complete, missing_fields)
is_contract_complete(contract) ==
    LET partners == IF "partners" \in DOMAIN contract
                    THEN contract["partners"] ELSE <<>>
        company == IF "company_data" \in DOMAIN contract
                   THEN contract["company_data"] ELSE EmptyDict
        missing_fields ==
            (IF not_partners(partners) THEN <<"no_partners_added">> ELSE <<>>)
            \o partners_missing(partners, 0)
            \o company_missing(company)
    IN [is_complete |-> Len(missing_fields) = 0,
        missing_fields |-> missing_fields]

\* Values a field of a stored contract may hold
FilledValues == {CStr(<<"A", "n", "a">>), CStr(<<"n", "o", "n", "e", "x">>)}
FieldValues ==
    FilledValues
    \cup {CNone, CInt(0), CInt(100), CStr(<<>>), CStr(<<" ">>),
          CStr(<<".", ".", ".">>), CStr(<<" ", ".", ".", ".", "x">>),
          CStr(<<".", ".">>), CStr(<<"x", ".", ".", ".">>),
          CStr(<<"_", "_", "_">>), CStr(<<"_", "_", "_", "x">>),
          CStr(<<"_", "_", "x">>), CStr(<<"N", "o", "n", "e">>),
          CStr(<<"N", "U", "L", "L">>), CStr(<<" ", "n", "u", "l", "l", "\n">>),
          CStr(<<"u", "n", "d", "e", "f", "i", "n", "e", "d">>)}

PartnerKeys == {"id", "name", "nationality", "civil_state", "regime",
                "profession", "birth_date", "cpf", "address", "quotas",
                "amount", "percent"}
CompanyKeys == {"company_name", "company_address", "company_object",
                "company_cnae_list", "start_date", "capital_currency",
                "signature_date"}

\* A partner and a company record with every field filled
FilledPartner == [k \in PartnerKeys |-> CStr(<<"A", "n", "a">>)]
FilledCompany == [k \in CompanyKeys |-> CStr(<<"A", "n", "a">>)]

\* d without the key k
Without(d, k) == [x \in DOMAIN d \ {k} |-> d[x]]

\* Records that differ from a filled one in one field, or lack one key, or
\* are empty
PartnerRecords ==
    {[FilledPartner EXCEPT ![k] = v] : k \in PartnerKeys \ {"id"}, v \in FieldValues}
    \cup {Without(FilledPartner, k) : k \in PartnerKeys}
    \cup {EmptyDict}
CompanyRecords ==
    {[FilledCompany EXCEPT ![k] = v] : k \in CompanyKeys, v \in FieldValues}
    \cup {Without(FilledCompany, k) : k \in CompanyKeys}
    \cup {EmptyDict}

\* A few records with several fields unfilled, for contracts with more than
\* one partner
FewPartners ==
    {FilledPartner,
     [FilledPartner EXCEPT !["name"] = CStr(<<>>), !["percent"] = CNone,
                           !["regime"] = CStr(<<>>)],
     [FilledPartner EXCEPT !["cpf"] = CStr(<<".", ".", ".">>),
                           !["civil_state"] = CStr(<<"N", "o", "n", "e">>)],
     EmptyDict}
FewCompanies ==
    {FilledCompany,
     [FilledCompany EXCEPT !["start_date"] = CNone,
                           !["company_name"] = CStr(<<"_", "_", "_">>)],
     EmptyDict}

MaxContractPartners == 2

\* A stored contract: the keys partners and company_data may each be absent
Contract(has_partners, ps, has_company, cd) ==
    (IF has_partners THEN [x \in {"partners"} |-> ps] ELSE EmptyDict)
    @@ (IF has_company THEN [x \in {"company_data"} |-> cd] ELSE EmptyDict)

Contracts ==
    {Contract(TRUE, <<p>>, TRUE, FilledCompany) : p \in PartnerRecords}
    \cup {Contract(TRUE, <<FilledPartner>>, hc, cd) :
             hc \in BOOLEAN, cd \in CompanyRecords}
    \cup {Contract(hp, ps, hc, cd) :
             hp \in BOOLEAN, hc \in BOOLEAN, cd \in FewCompanies,
             ps \in UNION {[1..n -> FewPartners] : n \in 0..MaxContractPartners}}

ContractArgs == {[fn |-> "is_contract_complete", contract |-> c] : c \in Contracts}

\* is_complete, missing = is_contract_complete(contract)
call_is_contract_complete ==
    /\ args.fn = "is_contract_complete"
    /\ returned = NoReturn
    /\ LET r == is_contract_complete(args.contract)
       IN returned' = [at |-> "returned", is_complete |-> r.is_complete,
                       missing_fields |-> r.missing_fields]
    /\ UNCHANGED <<args, process_vars>>

----------------------------------------------------------------------------
(* PDF Page Rasterizer, called on its own *)

\* Saved uploads that are handed to the rasterizer
PdfPaths == {upload_path(prefix, filename) :
               prefix \in {"p0_", "addr_0_", "company_"},
               filename \in {f \in Filenames : ext_of(f) = "pdf"}}

ConvertArgs ==
    [fn : {"convert_pdf_to_image"}, path : PdfPaths,
     o1 : Pdf2ImageOutcomes, o2 : FitzOutcomes]

\* img_path = convert_pdf_to_image(filepath)
call_convert_pdf_to_image ==
    /\ args.fn = "convert_pdf_to_image"
    /\ returned = NoReturn
    /\ LET r == convert_pdf_to_image(args.path, args.o1, args.o2)
       IN returned' = [at |-> "returned", img_path |-> r.img_path,
                       written |-> r.written, backends |-> r.backends,
                       exc |-> r.exc]
    /\ UNCHANGED <<args, process_vars>>

----------------------------------------------------------------------------
(* Address Composer, called on its own *)

\* A key that the reply does not hold
Absent == [t |-> "absent", s |-> "", n |-> 0]

\* {k: v}, or {} when the key is absent
Entry(k, v) == IF v = Absent THEN EmptyDict ELSE [x \in {k} |-> v]

\* Address extraction results: each key absent, null, empty or filled; the
\* house number also as a JSON number
AddrInputs ==
    {Entry("full_address", fa) @@ Entry("street", st) @@ Entry("number", nu)
     @@ Entry("complement", co) @@ Entry("neighborhood", ne)
     @@ Entry("city", ci) @@ Entry("state", uf) @@ Entry("zip_code", zc) :
        fa \in {Absent, PyNone, PyStr(""), PyStr("Rua B, 20")},
        st \in {Absent, PyNone, PyStr(""), PyStr("Rua A")},
        nu \in {Absent, PyStr("10"), PyInt(10)},
        co \in {Absent, PyStr("Apto 1")},
        ne \in {Absent, PyStr("")},
        ci \in {Absent, PyNone, PyStr(""), PyStr("Santos")},
        uf \in {Absent, PyNone, PyStr("SP")},
        zc \in {Absent, PyNone, PyStr(""), PyStr("01000")}}

ComposeArgs ==
    {[fn |-> "compose_address", addr_data |-> d] : d \in AddrInputs \ {EmptyDict}}

\* process, lines 709-724, for a partner whose address is still ''
call_compose_address_process ==
    /\ args.fn = "compose_address"
    /\ returned = NoReturn
    /\ LET r == compose_address_process(args.addr_data, PyStr(""))
       IN returned' = [at |-> "returned", site |-> "process", exc |-> r.exc,
                       value |-> r.value, set |-> r.set, parts |-> r.parts]
    /\ UNCHANGED <<args, process_vars>>

\* extract_single_document, lines 1100-1114
call_compose_address_single ==
    /\ args.fn = "compose_address"
    /\ returned = NoReturn
    /\ LET r == compose_address_single(args.addr_data)
       IN returned' = [at |-> "returned", site |-> "extract_single_document",
                       exc |-> r.exc, value |-> r.value, set |-> r.set,
                       parts |-> r.parts]
    /\ UNCHANGED <<args, process_vars>>

----------------------------------------------------------------------------
(* Placeholder Substituter: apply_placeholders *)

\* The nested values of a record: a dict, a list, or a scalar (CNone, CStr,
\* CInt)
PDict(d) == [t |-> "dict", d |-> d]
PList(l) == [t |-> "list", l |-> l]

\* The characters of the keys that records hold
KeyText ==
    [id |->
        <<"i", "d">>,
     name |->
        <<"n", "a", "m", "e">>,
     nationality |->
        <<"n", "a", "t", "i", "o", "n", "a", "l", "i", "t", "y">>,
     civil_state |->
        <<"c", "i", "v", "i", "l", "_", "s", "t", "a", "t", "e">>,
     regime |->
        <<"r", "e", "g", "i", "m", "e">>,
     profession |->
        <<"p", "r", "o", "f", "e", "s", "s", "i", "o", "n">>,
     birth_date |->
        <<"b", "i", "r", "t", "h", "_", "d", "a", "t", "e">>,
     cpf |->
        <<"c", "p", "f">>,
     address |->
        <<"a", "d", "d", "r", "e", "s", "s">>,
     quotas |->
        <<"q", "u", "o", "t", "a", "s">>,
     amount |->
        <<"a", "m", "o", "u", "n", "t">>,
     percent |->
        <<"p", "e", "r", "c", "e", "n", "t">>,
     company_name |->
        <<"c", "o", "m", "p", "a", "n", "y", "_", "n", "a", "m", "e">>,
     company_address |->
        <<"c", "o", "m", "p", "a", "n", "y", "_", "a", "d", "d", "r", "e",
          "s", "s">>,
     company_object |->
        <<"c", "o", "m", "p", "a", "n", "y", "_", "o", "b", "j", "e", "c",
          "t">>,
     company_cnae_list |->
        <<"c", "o", "m", "p", "a", "n", "y", "_", "c", "n", "a", "e", "_",
          "l", "i", "s", "t">>,
     start_date |->
        <<"s", "t", "a", "r", "t", "_", "d", "a", "t", "e">>,
     capital_currency |->
        <<"c", "a", "p", "i", "t", "a", "l", "_", "c", "u", "r", "r", "e",
          "n", "c", "y">>,
     signature_date |->
        <<"s", "i", "g", "n", "a", "t", "u", "r", "e", "_", "d", "a", "t",
          "e">>,
     partners |->
        <<"p", "a", "r", "t", "n", "e", "r", "s">>,
     administrator_names |->
        <<"a", "d", "m", "i", "n", "i", "s", "t", "r", "a", "t", "o", "r",
          "_", "n", "a", "m", "e", "s">>,
     capital_amount_text |->
        <<"c", "a", "p", "i", "t", "a", "l", "_", "a", "m", "o", "u", "n",
          "t", "_", "t", "e", "x", "t">>,
     total_quotas |->
        <<"t", "o", "t", "a", "l", "_", "q", "u", "o", "t", "a", "s">>,
     quota_value |->
        <<"q", "u", "o", "t", "a", "_", "v", "a", "l", "u", "e">>,
     forum_city |->
        <<"f", "o", "r", "u", "m", "_", "c", "i", "t", "y">>,
     rg |->
        <<"r", "g">>,
     partner_name |->
        <<"p", "a", "r", "t", "n", "e", "r", "_", "n", "a", "m", "e">>]

\* str.upper(), character by character
upper(c) ==
    LET upper_char(ch) ==
           CASE ch = "a" -> "A" [] ch = "b" -> "B" [] ch = "c" -> "C"
             [] ch = "d" -> "D" [] ch = "e" -> "E" [] ch = "f" -> "F"
             [] ch = "g" -> "G" [] ch = "h" -> "H" [] ch = "i" -> "I"
             [] ch = "j" -> "J" [] ch = "k" -> "K" [] ch = "l" -> "L"
             [] ch = "m" -> "M" [] ch = "n" -> "N" [] ch = "o" -> "O"
             [] ch = "p" -> "P" [] ch = "q" -> "Q" [] ch = "r" -> "R"
             [] ch = "s" -> "S" [] ch = "t" -> "T" [] ch = "u" -> "U"
             [] ch = "v" -> "V" [] ch = "w" -> "W" [] ch = "x" -> "X"
             [] ch = "y" -> "Y" [] ch = "z" -> "Z"
             [] OTHER -> ch
    IN [n \in DOMAIN c |-> upper_char(c[n])]

\* lines 962-976
mappings ==
    [name |->
        <<"[", "N", "O", "M", "E", " ", "C", "O", "M", "P", "L", "E", "T",
          "O", "]">>,
     cpf |->
        <<"[", "C", "P", "F", "]">>,
     rg |->
        <<"[", "R", "G", "]">>,
     nationality |->
        <<"[", "N", "A", "C", "I", "O", "N", "A", "L", "I", "D", "A", "D",
          "E", "]">>,
     civil_state |->
        <<"[", "E", "S", "T", "A", "D", "O", " ", "C", "I", "V", "I", "L",
          "]">>,
     profession |->
        <<"[", "P", "R", "O", "F", "I", "S", "S", "Ã", "O", "]">>,
     address |->
        <<"[", "E", "N", "D", "E", "R", "E", "Ç", "O", " ", "C", "O", "M",
          "P", "L", "E", "T", "O", "]">>,
     company_name |->
        <<"[", "R", "A", "Z", "Ã", "O", " ", "S", "O", "C", "I", "A", "L",
          "]">>,
     company_address |->
        <<"[", "E", "N", "D", "E", "R", "E", "Ç", "O", " ", "D", "A", " ",
          "S", "E", "D", "E", "]">>,
     capital_currency |->
        <<"[", "C", "A", "P", "I", "T", "A", "L", " ", "R", "$", "]">>,
     capital_amount_text |->
        <<"[", "C", "A", "P", "I", "T", "A", "L", " ", "P", "O", "R", " ",
          "E", "X", "T", "E", "N", "S", "O", "]">>,
     start_date |->
        <<"[", "D", "A", "T", "A", " ", "D", "E", " ", "I", "N", "Í", "C",
          "I", "O", "]">>,
     signature_date |->
        <<"[", "D", "A", "T", "A", " ", "D", "E", " ", "A", "S", "S", "I",
          "N", "A", "T", "U", "R", "A", "]">>]

\* the placeholder of every key derived from the key, without the table
placeholder_generic(k) ==
    LET replaced(c) == [n \in DOMAIN c |-> IF c[n] = "_" THEN " " ELSE c[n]]
    IN <<"[">> \o replaced(upper(KeyText[k])) \o <<"]">>

\* lines 959-982: the placeholder of the key k
placeholder(k) ==
    LET \* str.replace('_', ' ')
        replaced(c) == [n \in DOMAIN c |-> IF c[n] = "_" THEN " " ELSE c[n]]
        \* sub in c
        contains(c, sub) ==
           \E n \in 1..(Len(c) - Len(sub) + 1) :
              SubSeq(c, n, n + Len(sub) - 1) = sub
    IN IF k \in DOMAIN mappings THEN mappings[k]
       ELSE IF /\ contains(KeyText[k], <<"p", "a", "r", "t", "n", "e", "r">>)
               /\ contains(KeyText[k], <<"n", "a", "m", "e">>)
       THEN <<"[", "N", "O", "M", "E", " ", "D", "O", " ", "S", "Ó", "C", "I",
             "O", "]">>
       ELSE <<"[">> \o replaced(upper(KeyText[k])) \o <<"]">>

\* not v
falsy(v) ==
    \/ v.t = "none"
    \/ v.t = "str" /\ v.c = <<>>
    \/ v.t = "int" /\ v.n = 0

\* lines 948-990
RECURSIVE apply_placeholders(_)
apply_placeholders(data) ==
    IF data.t = "dict"
    THEN PDict([k \in DOMAIN data.d |->
                  LET v == data.d[k]
                  IN IF v.t \in {"dict", "list"} THEN apply_placeholders(v)
                     \* line 957: elif not v or str(v).strip() == ""
                     ELSE IF falsy(v) \/ strip(str(v)) = <<>>
                     THEN CStr(placeholder(k))
                     ELSE v])
    ELSE IF data.t = "list"
    THEN PList([n \in DOMAIN data.l |-> apply_placeholders(data.l[n])])
    ELSE data

\* The fields of a partner that the form submits
PartnerFields == PartnerKeys \ {"id"}

\* A company record as generate builds it, with its partners embedded
CompanyWith(ps, name) ==
    PDict([k \in CompanyKeys \cup {"partners", "administrator_names"} |->
             IF k = "partners" THEN PList(ps)
             ELSE IF k = "administrator_names" THEN name
             ELSE IF k = "company_name" THEN name
             ELSE CStr(<<"A", "n", "a">>)])

\* What apply_placeholders is called with: partner records whose values are
\* all empty (the fields of the form with or without an id, or a few of
\* them, each holding '', None or ' '), partner records of process with one
\* field holding any scalar, lists, nested records, and scalars
PlaceholderArgs ==
    LET scalars == {CNone, CInt(0), CInt(1), CStr(<<>>), CStr(<<" ">>),
                    CStr(<<"\t", "\n">>), CStr(<<"0">>), CStr(<<"A", "n", "a">>),
                    CStr(<<" ", "x", " ">>)}
        empty == {CNone, CStr(<<>>), CStr(<<" ">>)}
        empty_partners ==
           {[k \in ks |-> e] :
               ks \in {PartnerFields, PartnerKeys,
                       {"name", "cpf", "rg", "birth_date"}},
               e \in empty}
           \cup {[k \in PartnerKeys |-> IF k = "id" THEN CInt(0) ELSE CStr(<<>>)]}
           \cup {[[k \in PartnerFields |-> CStr(<<>>)] EXCEPT ![f] = e] :
                    f \in PartnerFields, e \in empty}
        some_partners ==
           {[[k \in PartnerKeys |-> IF k = "id" THEN CInt(n) ELSE CStr(<<>>)]
                EXCEPT ![f] = v] :
               n \in {0, 1}, f \in {"name", "quotas"}, v \in scalars}
        inputs ==
           {PDict(p) : p \in empty_partners \cup some_partners}
           \cup {PList(<<PDict(p), PDict(q)>>) :
                    p \in {[name |-> CStr(<<>>)]}, q \in some_partners}
           \cup {CompanyWith(<<PDict(p)>>, v) : p \in some_partners, v \in empty}
           \cup {PDict([partner_name |-> v, partners |-> PList(<<>>),
                        company_data |-> PDict(EmptyDict)]) : v \in scalars}
           \cup scalars
           \cup {PList(<<>>)}
    IN {[fn |-> "apply_placeholders", data |-> x] : x \in inputs}

\* new_data = apply_placeholders(data); data is read and never assigned to
call_apply_placeholders ==
    /\ args.fn = "apply_placeholders"
    /\ returned = NoReturn
    /\ returned' = [at |-> "returned", new_data |-> apply_placeholders(args.data),
                    data |-> args.data]
    /\ UNCHANGED <<args, process_vars>>

----------------------------------------------------------------------------
(* The dashboard: index *)

\* A column of a stored row is [json, value]: the value as it is (json ""),
\* or a str of JSON text that json.loads accepts ("valid") or rejects

Novo_Contrato == CStr(<<"N", "o", "v", "o", " ", "C", "o", "n", "t", "r", "a", "t", "o">>)

\* lines 597-600
effective_status(is_complete) == IF ~is_complete THEN "draft" ELSE "completed"

\* lines 572-600 for one row of the table
index_contract(row) ==
    LET \* lines 573-584: a str column is replaced by json.loads of it, or
        \* by the default when json.loads raises
        decode_column(col, default) ==
           IF col.json = "invalid" THEN default ELSE col.value
        contract ==
           [k \in DOMAIN row |->
              IF k = "partners" THEN decode_column(row[k], <<>>)
              ELSE IF k = "company_data" THEN decode_column(row[k], EmptyDict)
              ELSE row[k]]
        r == is_contract_complete(contract)
        stored_name == IF "name" \in DOMAIN contract THEN contract["name"]
                       ELSE CNone
        c_data == IF "company_data" \in DOMAIN contract
                  THEN contract["company_data"] ELSE EmptyDict
        name == IF falsy(stored_name) \/ stored_name = Novo_Contrato
                THEN IF "company_name" \in DOMAIN c_data
                     THEN c_data["company_name"]
                     ELSE IF "name" \in DOMAIN contract THEN contract["name"]
                     ELSE CStr(<<"S", "e", "m", " ", "N", "o", "m", "e">>)
                ELSE stored_name
        renamed == falsy(stored_name) \/ stored_name = Novo_Contrato
    IN [k \in DOMAIN contract
             \cup {"is_complete", "missing_fields", "effective_status"}
             \cup (IF renamed THEN {"name"} ELSE {}) |->
          IF k = "is_complete" THEN r.is_complete
          ELSE IF k = "missing_fields" THEN r.missing_fields
          ELSE IF k = "effective_status" THEN effective_status(r.is_complete)
          ELSE IF k = "name" THEN name
          ELSE contract[k]]

\* What the select of the table answers: "unconfigured" when supabase_client
\* is None, an exception, or the rows in the order of created_at
IndexArgs ==
    LET rows ==
           {Contract(TRUE, [json |-> "", value |-> ps],
                     TRUE, [json |-> "", value |-> cd])
            @@ [x \in {"status"} |-> st] @@ [x \in {"name"} |-> nm] :
               ps \in {<<FilledPartner>>, <<>>,
                       <<[FilledPartner EXCEPT !["cpf"] = CStr(<<>>)]>>},
               cd \in {FilledCompany, EmptyDict,
                       [FilledCompany EXCEPT !["start_date"] = CNone]},
               st \in {"draft", "completed"},
               nm \in {CStr(<<"A", "c", "m", "e">>), Novo_Contrato}}
           \cup {Contract(TRUE, [json |-> ok, value |-> <<FilledPartner>>],
                          TRUE, [json |-> ok, value |-> FilledCompany])
                 @@ [x \in {"status"} |-> st] :
                    ok \in {"valid", "invalid"}, st \in {"draft", "completed"}}
           \cup {[x \in {"status"} |-> "completed"]}
    IN {[fn |-> "index", supabase |-> o, rows |-> <<>>] :
           o \in {"unconfigured", "raise", "ok"}}
       \cup {[fn |-> "index", supabase |-> "ok", rows |-> <<r>>] : r \in rows}
       \cup {[fn |-> "index", supabase |-> "ok", rows |-> <<q, r>>] :
                q \in {r \in rows : "name" \notin DOMAIN r}, r \in rows}

\* lines 555-611
call_index ==
    /\ args.fn = "index"
    /\ returned = NoReturn
    /\ LET \* contracts.reverse()
           reverse(s) == [n \in DOMAIN s |-> s[Len(s) + 1 - n]]
           fetched == IF args.supabase = "ok" THEN reverse(args.rows) ELSE <<>>
           shown == [n \in DOMAIN fetched |-> index_contract(fetched[n])]
           \* len([c for c in contracts if c.get('effective_status') == status])
           count_status(status) ==
              Cardinality({n \in DOMAIN shown :
                             shown[n]["effective_status"] = status})
       IN returned' = [at |-> "returned", contracts |-> shown,
                       drafts_count |-> count_status("draft"),
                       completed_count |-> count_status("completed")]
    /\ UNCHANGED <<args, process_vars>>

----------------------------------------------------------------------------
(* Re-rendering a stored contract: download_contract *)

\* not v, for a scalar, a list or a dict
falsy_value(v) ==
    IF v.t = "list" THEN v.l = <<>>
    ELSE IF v.t = "dict" THEN DOMAIN v.d = {}
    ELSE falsy(v)

\* lines 1012-1016
default_keys ==
    <<"company_name", "company_address", "company_object", "company_cnae_list",
      "start_date", "capital_currency", "capital_amount_text", "total_quotas",
      "quota_value", "forum_city", "signature_date", "administrator_names">>

\* lines 1017-1027: company_data after the defaults of a forced download
with_defaults(cd) ==
    LET keys == {default_keys[n] : n \in DOMAIN default_keys}
        no_partners == "partners" \notin DOMAIN cd \/ falsy_value(cd["partners"])
        \* lines 1023-1027
        dummy_partner ==
           PDict([k \in {"name", "nationality", "civil_state", "regime",
                         "profession", "birth_date", "cpf", "address",
                         "quotas", "amount", "percent"} |-> CStr(<<>>)])
    IN [k \in DOMAIN cd \cup keys \cup {"partners"} |->
          IF k = "partners"
          THEN IF no_partners THEN PList(<<dummy_partner>>) ELSE cd[k]
          ELSE IF k \in keys /\ (k \notin DOMAIN cd \/ falsy_value(cd[k]))
          THEN CStr(<<>>)
          ELSE cd[k]]

\* No mapping was handed to the renderer
NoContext == [t |-> "nothing"]

\* lines 993-1053: [response, context, placeholders]
download_contract(a) ==
    LET stop(code) == [response |-> code, context |-> NoContext,
                       placeholders |-> FALSE]
    IN IF a.supabase = "unconfigured" THEN stop("redirect index")
       ELSE IF a.supabase = "raise" THEN stop("500")
       ELSE IF a.supabase = "nodata" THEN stop("404")
       ELSE LET contract == a.row
                stored == IF "company_data" \in DOMAIN contract
                          THEN contract["company_data"] ELSE PDict(EmptyDict)
                \* contract.get('company_data', {}) or {}
                found == IF falsy_value(stored) THEN EmptyDict ELSE stored.d
                status == IF "status" \in DOMAIN contract
                          THEN contract["status"] ELSE "draft"
                company == IF a.force THEN with_defaults(found) ELSE found
                \* line 1042: if status != 'completed' or force_download
                wanted == status # "completed" \/ a.force
                data_to_render == IF wanted THEN apply_placeholders(PDict(company))
                                  ELSE PDict(company)
            IN IF DOMAIN company = {} /\ ~a.force THEN stop("400")
               ELSE IF ~a.template THEN stop("500")
               ELSE [response |-> IF a.render_raises THEN "500" ELSE "200",
                     context |-> data_to_render, placeholders |-> wanted]

\* The stored rows that are downloaded.  Their company_data: as generate
\* stores it (its partners embedded), as process stores it (the extracted
\* keys only), with every key of the template, empty, or null
DownloadArgs ==
    LET form_partner(name) ==
           PDict([k \in PartnerFields |-> IF k = "name" THEN name ELSE CStr(<<"A", "n", "a">>)])
        companies ==
           {CompanyWith(ps, name) :
               ps \in {<<>>, <<form_partner(CStr(<<"A", "n", "a">>))>>,
                       <<form_partner(CStr(<<>>)), PDict([name |-> CNone])>>},
               name \in {CStr(<<"A", "n", "a">>), CStr(<<>>)}}
           \cup {PDict([company_name |-> CStr(<<"A", "c", "m", "e">>)]),
                 PDict([company_name |-> CNone, total_quotas |-> CInt(0)]),
                 PDict([k \in {default_keys[n] : n \in DOMAIN default_keys}
                              \cup {"partners"} |->
                          IF k = "partners" THEN PList(<<form_partner(CStr(<<"A", "n", "a">>))>>)
                          ELSE CStr(<<"A", "n", "a">>)]),
                 PDict(EmptyDict), CNone}
        rows ==
           {[x \in {"company_data"} |-> cd] @@ [x \in {"status"} |-> st] :
               cd \in companies, st \in {"draft", "completed"}}
           \cup {[x \in {"company_data"} |-> cd] : cd \in companies}
           \cup {[x \in {"status"} |-> "completed"]}
    IN [fn : {"download_contract"}, supabase : {"ok"}, row : rows,
        force : BOOLEAN, template : BOOLEAN, render_raises : BOOLEAN]
       \cup [fn : {"download_contract"},
             supabase : {"unconfigured", "raise", "nodata"},
             row : {[x \in {"status"} |-> "completed"]}, force : BOOLEAN,
             template : {TRUE}, render_raises : {FALSE}]

call_download_contract ==
    /\ args.fn = "download_contract"
    /\ returned = NoReturn
    /\ LET r == download_contract(args)
       IN returned' = [at |-> "returned", response |-> r.response,
                       context |-> r.context, placeholders |-> r.placeholders]
    /\ UNCHANGED <<args, process_vars>>

----------------------------------------------------------------------------
(* Rendering a submitted form: generate *)

\* key.split('_')
RECURSIVE split(_)
split(c) ==
    IF \A n \in DOMAIN c : c[n] # "_" THEN <<c>>
    ELSE LET n == CHOOSE n \in DOMAIN c :
                     c[n] = "_" /\ \A m \in 1..(n - 1) : c[m] # "_"
         IN <<SubSeq(c, 1, n - 1)>> \o split(SubSeq(c, n + 1, Len(c)))

Digits == <<"0", "1", "2", "3", "4", "5", "6", "7", "8", "9">>

\* str.isdigit()
isdigit(c) ==
    c # <<>> /\ \A n \in DOMAIN c : \E d \in DOMAIN Digits : Digits[d] = c[n]

\* int(c) of a str of digits
RECURSIVE int(_)
int(c) ==
    IF c = <<>> THEN 0
    ELSE 10 * int(SubSeq(c, 1, Len(c) - 1))
         + (CHOOSE d \in 0..9 : Digits[d + 1] = c[Len(c)])

\* 'partner_'
partner_prefix == <<"p", "a", "r", "t", "n", "e", "r", "_">>

\* lines 810-815: the partner indices named by the keys of the form
p_indices(fields) ==
    {int(split(key)[2]) :
        key \in {k \in DOMAIN fields :
                   /\ startswith(k, partner_prefix)
                   /\ Len(split(k)) >= 2
                   /\ isdigit(split(k)[2])}}

\* sorted(list(p_indices))
RECURSIVE sorted(_)
sorted(S) ==
    IF S = {} THEN <<>>
    ELSE LET m == CHOOSE m \in S : \A x \in S : m <= x
         IN <<m>> \o sorted(S \ {m})

\* request.form.get(key, default)
form_get(fields, key, default) ==
    IF key \in DOMAIN fields THEN fields[key] ELSE default

\* lines 820-832, with the keys f'partner_{i}_{field}'
p_data(fields, idx) ==
    [k \in PartnerFields |->
        form_get(fields, partner_prefix \o digits(idx) \o <<"_">> \o KeyText[k],
                 CStr(<<>>))]

\* ", ".join(names)
RECURSIVE join_names(_)
join_names(names) ==
    IF names = <<>> THEN <<>>
    ELSE IF Len(names) = 1 THEN names[1].c
    ELSE names[1].c \o <<",", " ">> \o join_names(Tail(names))

\* lines 836-846
form_company_data(fields, partners) ==
    LET names == SelectSeq([n \in DOMAIN partners |-> partners[n]["name"]],
                           LAMBDA v : ~falsy(v))
    IN [k \in CompanyKeys \cup {"partners", "administrator_names"} |->
          IF k = "partners"
          THEN PList([n \in DOMAIN partners |-> PDict(partners[n])])
          ELSE IF k = "administrator_names" THEN CStr(join_names(names))
          ELSE form_get(fields, KeyText[k], CStr(<<>>))]

\* lines 854-860; the name is company_name or 'Contrato Sem Nome'
contract_payload(partners, company) ==
    [name |-> IF falsy(company["company_name"])
              THEN CStr(<<"C", "o", "n", "t", "r", "a", "t", "o", " ", "S",
                        "e", "m", " ", "N", "o", "m", "e">>)
              ELSE company["company_name"],
     status |-> "completed",
     partners |-> PList([n \in DOMAIN partners |-> PDict(partners[n])]),
     company_data |-> PDict(company)]

\* lines 852-873: the table and contract_id after the save; outcome is what
\* the storage collaborator does ("unconfigured": supabase_client is None)
save_contract(table, contract_id, payload, outcome, new_id) ==
    LET row(id) ==
           [id |-> id, name |-> payload.name, status |-> payload.status,
            partners |-> payload.partners, company_data |-> payload.company_data]
    IN IF outcome \in {"unconfigured", "raise"}
       THEN [table |-> table, contract_id |-> contract_id]
       ELSE IF ~falsy(contract_id)
       THEN \* update(contract_payload).eq('id', contract_id)
            [table |-> [n \in DOMAIN table |->
                          IF table[n].id = contract_id
                          THEN row(contract_id) ELSE table[n]],
             contract_id |-> contract_id]
       ELSE \* insert(contract_payload)
            [table |-> Append(table, row(new_id)),
             contract_id |-> IF outcome = "ok" THEN new_id ELSE contract_id]

\* lines 802-898: [response, stored, context, filename]
generate(a) ==
    LET indices == sorted(p_indices(a.form))
        partners == [n \in DOMAIN indices |-> p_data(a.form, indices[n])]
        company == form_company_data(a.form, partners)
        saved == save_contract(a.stored,
                               form_get(a.form, <<"c", "o", "n", "t", "r", "a", "c", "t",
                                    "_", "i", "d">>, CNone),
                               contract_payload(partners, company), a.supabase,
                               CStr(<<"9">>))
        \* f"contract_{contract_id or 'temp'}.docx"
        output_filename ==
           <<"c", "o", "n", "t", "r", "a", "c", "t", "_">>
           \o (IF falsy(saved.contract_id) THEN <<"t", "e", "m", "p">>
               ELSE saved.contract_id.c)
           \o <<".", "d", "o", "c", "x">>
    IN IF ~a.template
       THEN [response |-> "redirect index", stored |-> saved.table,
             context |-> NoContext, filename |-> <<>>]
       ELSE [response |-> IF a.render_raises THEN "500" ELSE "download.html",
             stored |-> saved.table,
             context |-> apply_placeholders(PDict(company)),
             filename |-> output_filename]

\* Submitted forms: the first partner, a second one (complete, with one
\* field only, or under the index text "01"), the company fields, the hidden
\* contract_id and partner_count.  The table before the request: empty, or
\* holding the draft with id 7
GenerateArgs ==
    LET partner_form(s, fields, v) ==
           [k \in {partner_prefix \o s \o <<"_">> \o KeyText[f] : f \in fields}
               |-> v]
        company_form(v) == [k \in {KeyText[f] : f \in CompanyKeys} |-> v]
        none == [k \in {} |-> CNone]
        forms ==
           {partner_form(<<"0">>, PartnerFields, a) @@ second @@ company @@ cid
            @@ [k \in {<<"p", "a", "r", "t", "n", "e", "r", "_", "c", "o", "u",
                      "n", "t">>} |-> CStr(<<"2">>)] :
               a \in {CStr(<<"A", "n", "a">>), CStr(<<>>)},
               second \in {none,
                           partner_form(<<"1">>, PartnerFields, CStr(<<"B", "i", "a">>)),
                           partner_form(<<"1">>, {"name"}, CStr(<<"B", "i", "a">>)),
                           partner_form(<<"0", "1">>, PartnerFields, CStr(<<"B", "i", "a">>))},
               company \in {none, company_form(CStr(<<>>)),
                            company_form(CStr(<<"A", "c", "m", "e">>))},
               cid \in {none}
                       \cup {[k \in {<<"c", "o", "n", "t", "r", "a", "c", "t",
                                    "_", "i", "d">>} |-> v] :
                                v \in {CStr(<<>>), CStr(<<"7">>)}}}
        draft ==
           [id |-> CStr(<<"7">>), name |-> CStr(<<"A", "c", "m", "e">>), status |-> "draft",
            partners |->
               PList(<<PDict([k \in PartnerKeys |->
                                IF k = "id" THEN CInt(0) ELSE CStr(<<>>)])>>),
            company_data |-> PDict([company_name |-> CStr(<<"A", "c", "m", "e">>)])]
    IN [fn : {"generate"}, form : forms, stored : {<<>>, <<draft>>},
        supabase : {"unconfigured", "raise", "nodata", "ok"},
        template : BOOLEAN, render_raises : BOOLEAN]

call_generate ==
    /\ args.fn = "generate"
    /\ returned = NoReturn
    /\ LET r == generate(args)
       IN returned' = [at |-> "returned", response |-> r.response,
                       stored |-> r.stored, context |-> r.context,
                       filename |-> r.filename]
    /\ UNCHANGED <<args, process_vars>>

----------------------------------------------------------------------------

FunctionArgs ==
    CompressArgs \cup ConvertArgs \cup ComposeArgs \cup ContractArgs
    \cup PlaceholderArgs \cup IndexArgs \cup DownloadArgs \cup GenerateArgs

FunctionsInit ==
    /\ NoRequest
    /\ args \in FunctionArgs
    /\ returned = NoReturn

FunctionsNext ==
    \/ compress_open
    \/ compress_reduce
    \/ compress_return
    \/ call_convert_pdf_to_image
    \/ call_compose_address_process
    \/ call_compose_address_single
    \/ call_is_contract_complete
    \/ call_apply_placeholders
    \/ call_index
    \/ call_download_contract
    \/ call_generate

SpecFunctions == FunctionsInit /\ [][FunctionsNext]_vars

----------------------------------------------------------------------------
(* Properties of the merge *)

\* extract_document_data has been called for the current file by one of the
\* two loops that merge its result
InRouter == role \in {"identity", "company"} /\ filepath # NoPath

\* The keys of a record that hold a non-empty value (neither None nor "")
NonEmptyKeys(d) == {k \in DOMAIN d : d[k] # PyNone /\ d[k] # PyStr("")}

\* C1: during a merge of /process, a field of the accumulating record that
\* holds a non-empty value is never replaced by an empty string or by null.
C1_NonEmptyFieldNeverBlanked ==
    [][pc = "return" =>
          /\ NonEmptyKeys(partner_info) \subseteq NonEmptyKeys(partner_info')
          /\ NonEmptyKeys(company_data) \subseteq NonEmptyKeys(company_data')]_vars

\* C2: after a merge, every key that the extraction result holds with a
\* non-empty value holds that value in the merged record.
C2_MergeTakesNewValues ==
    [][(pc = "return" /\ RetTruthy(extracted)) =>
          LET merged == IF role = "identity" THEN partner_info'
                        ELSE company_data'
          IN \A k \in NonEmptyKeys(extracted.d) :
                k \in DOMAIN merged /\ merged[k] = extracted.d[k]]_vars

\* A merged partner record whose initial id was overwritten by the
\* extraction's id
C2_Witness ==
    /\ pc = "identity_loop"
    /\ role = "identity"
    /\ extracted = Ret([name |-> PyStr("Bia"), id |-> PyStr("9")])
    /\ partner_info["id"] = PyStr("9")
    /\ partner_info["name"] = PyStr("Bia")

----------------------------------------------------------------------------
(* Properties of the document router *)

TextModels == {"extract_data_with_mistral_chat", "extract_data_with_ai"}
VisionFns == {"extract_data_from_image", "extract_address_from_proof"}
MistralOnText == <<"extract_data_with_mistral_chat", "text">>
OpenAIOnText == <<"extract_data_with_ai", "text">>

\* The router is past its reading of the text layer of a PDF
OnPdf == InRouter /\ ext_of(filepath) = "pdf" /\ pc # "route"

\* C3: a PDF takes the text path exactly when the trimmed length of its text
\* layer exceeds 500: then only the text extractor chain runs (no
\* rasterization, no vision call, whatever the two text models return); at
\* 500 or fewer, a failed text extraction included, the image path runs and
\* no text model is called.
C3_PdfPathByTrimmedLength ==
    OnPdf =>
       IF text.body > TEXT_THRESHOLD
       THEN /\ pc \in {"mistral", "openai_text", "return", "identity_loop",
                       "company_loop"}
            /\ \A n \in DOMAIN calls : calls[n][1] \in TextModels
            /\ pc # "mistral" => calls # <<>> /\ calls[1] = MistralOnText
       ELSE /\ pc \in {"rasterize", "vision_img", "vision_pdf", "return",
                       "identity_loop", "company_loop"}
            /\ \A n \in DOMAIN calls : calls[n][1] \notin TextModels
            /\ pc # "rasterize" =>
                  calls # <<>> /\ calls[1][1] = "convert_pdf_to_image"

\* A PDF whose text is 500 characters and a line break went to the image path
C3_Witness ==
    /\ OnPdf
    /\ pc = "return"
    /\ text.body = 500
    /\ text.trail = 1
    /\ calls[1][1] = "convert_pdf_to_image"

\* C4: the fallback text model is called only when the primary returned null
\* or a mapping without keys; a primary result with at least one key is the
\* result of the extraction and the fallback is not called.
C4_FallbackOnlyAfterEmptyPrimary ==
    (InRouter /\ calls # <<>> /\ calls[1] = MistralOnText) =>
       /\ (pc = "openai_text" \/ Len(calls) > 1) =>
             (result.none \/ DictLen(result.d) = 0)
       /\ (~result.none /\ DictLen(result.d) >= 1) =>
             (Len(calls) = 1 /\ extracted = result)

\* The primary answered a mapping with one key (holding null): it is the
\* result, and the fallback was not called
C4_Witness ==
    /\ InRouter
    /\ pc = "return"
    /\ calls = <<MistralOnText>>
    /\ result = Ret([name |-> PyNone])
    /\ extracted = result

\* C5: on a text-path PDF whose primary yields nothing and whose fallback
\* provider answers a non-empty mapping M, extract_document_data returns M,
\* and the merge of /process leaves M's values in the company record.
C5_FallbackResultMerged ==
    [][(InRouter /\ pc = "return"
        /\ calls = <<MistralOnText, OpenAIOnText>>
        /\ ~RetTruthy(result)
        /\ last.reply.kind = "object" /\ DictLen(last.reply.obj) > 0) =>
          /\ extracted = Ret(last.reply.obj)
          /\ role = "company" =>
                \A k \in DOMAIN last.reply.obj :
                   k \in DOMAIN company_data'
                   /\ company_data'[k] = last.reply.obj[k]]_vars

\* The company record after the fallback's {"company_name": "Acme LTDA"} was
\* merged
C5_Witness ==
    /\ pc = "company_loop"
    /\ role = "company"
    /\ calls = <<MistralOnText, OpenAIOnText>>
    /\ last.reply = [kind |-> "object",
                     obj |-> [company_name |-> PyStr("Acme LTDA")]]
    /\ Get(company_data, "company_name") = PyStr("Acme LTDA")

\* The text extractor chain has returned to process
TextChainReturned ==
    InRouter /\ pc = "return" /\ calls # <<>> /\ calls[1] = MistralOnText

\* The fallback was reached and its provider raised, answered null or
\* answered text that is not JSON
FallbackFailed ==
    /\ Len(calls) = 2
    /\ last.fn = "extract_data_with_ai"
    /\ last.reply.kind \in {"raise", "null", "malformed"}

\* C6 as stated: when both text models fail, or either or both clients were
\* never configured, the chain returns an empty mapping.
C6_EmptyWhenEitherClientMissing ==
    (TextChainReturned
     /\ (~mistral_client \/ ~openai_client
         \/ (~RetTruthy(result) /\ FallbackFailed))) =>
       extracted = Ret(EmptyDict)

\* C6: neither text extractor raises to its caller, and when the primary
\* yields nothing (it failed or has no client) and the fallback fails or has
\* no client, the chain returns an empty mapping.
C6_EmptyWhenBothYieldNothing ==
    /\ last.fn \in TextModels => last.exc = ""
    /\ (TextChainReturned /\ ~RetTruthy(result)
        /\ (FallbackFailed \/ (Len(calls) = 2 /\ ~openai_client))) =>
          extracted = Ret(EmptyDict)

\* No Mistral client, and the fallback's provider raised: the chain returned {}
C6_Witness ==
    /\ TextChainReturned
    /\ ~mistral_client
    /\ openai_client
    /\ FallbackFailed
    /\ last.reply.kind = "raise"
    /\ extracted = Ret(EmptyDict)

\* C7: on the image path of a PDF, the vision extractor is given the PDF
\* itself only when rasterization produced no image, and no extractor is
\* called more than once for the document.
C7_VisionOnPdfOnlyWithoutImage ==
    OnPdf =>
       /\ (\E n \in DOMAIN calls : calls[n] = <<"extract_data_from_image", "filepath">>)
             => img_path = NoPath
       /\ \A m, n \in DOMAIN calls : m # n => calls[m][1] # calls[n][1]

\* C8: a file whose extension is none of pdf, jpg, jpeg, png makes
\* extract_document_data return {} without raising and without calling any
\* extractor, the rasterizer or a provider.
C8_UnsupportedExtension ==
    (InRouter /\ pc # "route"
     /\ ext_of(filepath) \notin {"pdf", "jpg", "jpeg", "png"}) =>
       /\ pc \in {"return", "identity_loop", "company_loop"}
       /\ extracted = Ret(EmptyDict)
       /\ calls = <<>>
       /\ last = NoCall
       /\ text = EmptyText
       /\ img_path = NoPath

\* A .txt upload came back from extract_document_data
C8_Witness ==
    /\ InRouter
    /\ pc = "return"
    /\ ext_of(filepath) = "txt"
    /\ extracted = Ret(EmptyDict)

----------------------------------------------------------------------------
(* Properties of the vision extractors *)

\* The payload of the last vision call was the original file because the
\* image normalizer failed
NormalizerFailed == last.built /\ ~last.normalized

\* C9 as stated: the vision extractors never raise; for every failure mode
\* (no client, missing file, normalizer failure, provider exception, null or
\* malformed reply) they return an empty mapping.
C9_EmptyOnEveryFailureMode ==
    last.fn \in VisionFns =>
       /\ last.exc = ""
       /\ (~openai_client \/ last.caught # "" \/ NormalizerFailed) =>
             (~last.none /\ last.d = EmptyDict)

\* C9: the vision extractors never raise; without a client, on a missing
\* file, a provider exception or a null or malformed reply they return an
\* empty mapping; after a normalizer failure alone they go on with the
\* original file and return what the provider's reply holds.
C9_NeverRaises ==
    last.fn \in VisionFns =>
       /\ last.exc = ""
       /\ ~last.none
       /\ (~openai_client \/ last.caught # ""
           \/ last.reply.kind \in {"raise", "null", "malformed"}) =>
             last.d = EmptyDict
       /\ (NormalizerFailed /\ last.reply.kind = "object") =>
             last.d = last.reply.obj

\* The provider raised inside the address-proof extractor, which returned {}
C9_Witness ==
    /\ last.fn = "extract_address_from_proof"
    /\ last.built
    /\ last.reply.kind = "raise"
    /\ last.caught = "ProviderError"
    /\ last.exc = ""
    /\ last.d = EmptyDict

\* C10: every vision call that built a base64 payload releases it and runs
\* the garbage collector before it returns, on every return path of both
\* extractors.
C10_PayloadReleased ==
    (last.fn \in VisionFns /\ last.built) =>
       (last.released /\ last.collected)

----------------------------------------------------------------------------
(* Properties of the image normalizer *)

\* C11: the quality loop starts at quality 90, lowers the quality by 10 per
\* iteration and only while the encoded size exceeds max_size_kb*1024 bytes,
\* never goes below quality 50 and re-encodes at most 4 times; on a
\* successful return the encoded size is within the budget or the quality
\* is the floor 50.
C11_QualityLoop ==
    [][args.fn = "compress_image_for_api" =>
          /\ (returned = NoReturn /\ returned'.saves >= 1) =>
                returned'.quality = 90
          /\ (returned # NoReturn /\ returned'.at # "start"
              /\ returned'.quality # returned.quality) =>
                /\ returned'.quality = returned.quality - 10
                /\ returned.buffer > 1024 * 1024
                /\ returned'.saves = returned.saves + 1
          /\ returned'.at # "start" =>
                /\ returned'.quality >= 50
                /\ returned'.saves <= 5
                /\ (returned'.at = "returned" /\ returned'.base64_image) =>
                      (returned'.buffer <= 1024 * 1024
                       \/ returned'.quality = 50)]_vars

\* An image still over the budget at quality 50 was returned after the
\* first encoding and 4 re-encodings
C11_Witness ==
    /\ args.fn = "compress_image_for_api"
    /\ returned.at = "returned"
    /\ returned.base64_image
    /\ returned.quality = 50
    /\ returned.saves = 5
    /\ returned.buffer > 1024 * 1024

\* The file the last vision call was given
VisionPath == IF last.arg = "img_path" THEN img_path ELSE filepath

\* The image normalizer threw inside the last vision call
NormalizerThrew == last.fn \in VisionFns /\ openai_client /\ ~last.normalized

\* C12 as stated: when a step of the image normalizer throws, the calling
\* vision extractor still calls the provider, with the bytes of the original
\* file and a mime type of image/png or image/jpeg.
C12_ProviderAlwaysCalled ==
    NormalizerThrew =>
       /\ last.called
       /\ last.built
       /\ last.mime \in {"image/png", "image/jpeg"}

\* C12: when a step of the image normalizer throws, the normalizer returns
\* (None, None) and the vision extractor does not raise; if the original
\* file can be opened the extractor calls the provider with its bytes and
\* the mime type image/png (a .png file) or image/jpeg (any other file); if
\* it cannot be opened the extractor returns {} without calling the provider.
C12_FallbackToOriginal ==
    NormalizerThrew =>
       /\ last.exc = ""
       /\ IF last.caught = "FileNotFoundError"
          THEN ~last.called /\ ~last.built /\ last.d = EmptyDict
          ELSE /\ last.called
               /\ last.built
               /\ last.mime = IF ext_of(VisionPath) = "png" THEN "image/png"
                              ELSE "image/jpeg"

\* The PDF itself, which the normalizer cannot decode, was sent to the
\* provider as image/jpeg
C12_Witness ==
    /\ NormalizerThrew
    /\ last.fn = "extract_data_from_image"
    /\ last.arg = "filepath"
    /\ ext_of(filepath) = "pdf"
    /\ last.called
    /\ last.mime = "image/jpeg"

----------------------------------------------------------------------------
(* Properties of the rasterizer *)

\* C13: convert_pdf_to_image tries the first backend and runs the second
\* only if the first is unavailable, raised or returned no output; the first
\* backend that succeeds gives the returned image path; if both fail it
\* returns None; it never raises.
C13_BackendsInOrder ==
    (args.fn = "convert_pdf_to_image" /\ returned.at = "returned") =>
       LET second == \E n \in DOMAIN returned.backends :
                        returned.backends[n] = "fitz"
           target == replace_pdf(args.path)
       IN /\ returned.exc = ""
          /\ second <=> (args.o1 \in {"unavailable", "raise", "empty"}
                         /\ args.o2 # "unavailable")
          /\ args.o1 = "ok" =>
                returned.img_path = target /\ returned.backends = <<"pdf2image">>
          /\ (args.o1 # "ok" /\ args.o2 = "ok") =>
                returned.img_path = target /\ second
          /\ (args.o1 # "ok" /\ args.o2 # "ok") => returned.img_path = NoPath

\* The first backend raised and the second rendered the page
C13_Witness ==
    /\ args.fn = "convert_pdf_to_image"
    /\ args.o1 = "raise"
    /\ returned.at = "returned"
    /\ returned.backends = <<"pdf2image", "fitz">>
    /\ returned.img_path = <<"p0_rg_page1", "png">>

----------------------------------------------------------------------------
(* Properties of the address composer *)

\* The composer has returned for the address extraction result args.addr_data
Composed == args.fn = "compose_address" /\ returned.at = "returned"

\* A part that is absent, null or the empty string
EmptyPart(k) == Get(args.addr_data, k) \in {PyNone, PyStr("")}

\* C14: when full_address is present and non-empty the composed address is
\* full_address verbatim, whatever the decomposed parts hold.
C14_FullAddressVerbatim ==
    (Composed /\ ~EmptyPart("full_address")) =>
       /\ returned.exc = ""
       /\ returned.set
       /\ returned.value = args.addr_data["full_address"]

\* full_address was used although street, number, city and zip code were
\* there as well
C14_Witness ==
    /\ Composed
    /\ returned.site = "process"
    /\ ~EmptyPart("street") /\ ~EmptyPart("city") /\ ~EmptyPart("zip_code")
    /\ returned.value = PyStr("Rua B, 20")

\* The decomposed parts that are joined as they are
PlainKeys == {"street", "number", "complement", "neighborhood"}

\* The number of segments an address may hold: one per non-empty plain
\* part, one for city/state unless both are empty, one for a non-empty CEP
SegmentsAllowed ==
    Cardinality({k \in PlainKeys : ~EmptyPart(k)})
    + (IF EmptyPart("city") /\ EmptyPart("state") THEN 0 ELSE 1)
    + (IF EmptyPart("zip_code") THEN 0 ELSE 1)

\* C15: the composed address never holds a bare "/" or a bare "CEP "
\* segment: the city/state segment is left out when city and state are both
\* empty (empty string, null or absent), the CEP segment is left out when
\* zip_code is empty, and {street: "Rua A", number: "10"} composes to
\* "Rua A, 10".
C15_NoBareSegments ==
    (Composed /\ EmptyPart("full_address") /\ returned.set) =>
       /\ \A n \in DOMAIN returned.parts :
             returned.parts[n] \notin {PyStr("/"), PyStr("CEP ")}
       /\ Len(returned.parts) <= SegmentsAllowed
       /\ args.addr_data = [street |-> PyStr("Rua A"), number |-> PyStr("10")]
             => returned.value = PyStr("Rua A, 10")

\* f"{v}" of a part, the empty string when the part is empty
PartText(k) == IF EmptyPart(k) THEN "" ELSE Format(args.addr_data[k])

\* The non-empty parts in the order street, number, complement,
\* neighborhood, city/state, CEP zip_code
PartsInOrder ==
    SelectSeq(<<PyStr(PartText("street")), PyStr(PartText("number")),
                PyStr(PartText("complement")), PyStr(PartText("neighborhood")),
                IF EmptyPart("city") /\ EmptyPart("state") THEN PyStr("")
                ELSE PyStr(PartText("city") \o "/" \o PartText("state")),
                IF EmptyPart("zip_code") THEN PyStr("")
                ELSE PyStr("CEP " \o PartText("zip_code"))>>,
              LAMBDA q : q # PyStr(""))

\* C16: when full_address is absent or empty the composed address is the
\* comma-joined list of the non-empty decomposed parts in the order street,
\* number, complement, neighborhood, city/state, CEP zip_code, for every
\* combination of present and empty parts (an empty street with other parts
\* present and null-valued parts included).
C16_JoinedInOrder ==
    (Composed /\ EmptyPart("full_address")) =>
       /\ returned.exc = ""
       /\ returned.value = PyStr(join_comma(PartsInOrder))

----------------------------------------------------------------------------
(* Properties of is_contract_complete *)

\* is_contract_complete has returned for the contract args.contract
Judged == args.fn = "is_contract_complete" /\ returned.at = "returned"

\* The partner list and the company record of the contract, empty when absent
PartnersOf(c) == IF "partners" \in DOMAIN c THEN c["partners"] ELSE <<>>
CompanyOf(c) == IF "company_data" \in DOMAIN c THEN c["company_data"] ELSE EmptyDict

PartnerMarkers ==
    {"partner_" \o ToString(idx) \o "_" \o k :
        idx \in 0..MaxContractPartners, k \in PartnerKeys}

\* C17: for a contract whose partner list is empty or absent
\* is_contract_complete returns is_complete = False, with no_partners_added
\* as the first marker and without any partner_<index>_<field> marker.
C17_NoPartners ==
    (Judged /\ PartnersOf(args.contract) = <<>>) =>
       /\ returned.is_complete = FALSE
       /\ returned.missing_fields # <<>>
       /\ returned.missing_fields[1] = "no_partners_added"
       /\ \A n \in DOMAIN returned.missing_fields :
             returned.missing_fields[n] \notin PartnerMarkers

\* A contract without the key partners and with a filled company record
C17_Witness ==
    /\ Judged
    /\ "partners" \notin DOMAIN args.contract
    /\ CompanyOf(args.contract) = FilledCompany
    /\ returned.missing_fields = <<"no_partners_added">>
    /\ ~returned.is_complete

\* The fields the completeness of a contract depends on, in the order of
\* the form
PartnerFieldOrder ==
    <<"name", "nationality", "civil_state", "profession", "birth_date", "cpf",
      "address", "quotas", "amount", "percent">>
CompanyFieldOrder ==
    <<"company_name", "company_address", "company_object", "company_cnae_list",
      "start_date", "capital_currency", "signature_date">>

\* Every field of the order is in the record with a filled value
AllFilled(d, order) ==
    \A n \in DOMAIN order : order[n] \in DOMAIN d /\ d[order[n]] \in FilledValues

\* C18: is_contract_complete returns (True, []) for every contract with at
\* least one partner in which every required partner field of every partner
\* and every required company field is a non-placeholder string, whatever
\* regime holds; and is_complete is True only if the list is empty.
C18_CompleteWhenAllFilled ==
    Judged =>
       /\ (/\ PartnersOf(args.contract) # <<>>
           /\ \A n \in DOMAIN PartnersOf(args.contract) :
                 AllFilled(PartnersOf(args.contract)[n], PartnerFieldOrder)
           /\ AllFilled(CompanyOf(args.contract), CompanyFieldOrder)) =>
             (returned.is_complete /\ returned.missing_fields = <<>>)
       /\ returned.is_complete => returned.missing_fields = <<>>

\* A contract that is complete although its partner's regime is null
C18_Witness ==
    /\ Judged
    /\ Len(PartnersOf(args.contract)) = 1
    /\ PartnersOf(args.contract)[1] = [FilledPartner EXCEPT !["regime"] = CNone]
    /\ CompanyOf(args.contract) = FilledCompany
    /\ returned.is_complete
    /\ returned.missing_fields = <<>>

\* The values that count as missing: null; after trimming, the empty
\* string, none/null/undefined in any case, and a text starting with "..."
\* or "___"
MissingValues ==
    {CNone, CStr(<<>>), CStr(<<" ">>), CStr(<<".", ".", ".">>),
     CStr(<<" ", ".", ".", ".", "x">>), CStr(<<"_", "_", "_">>),
     CStr(<<"_", "_", "_", "x">>), CStr(<<"N", "o", "n", "e">>),
     CStr(<<"N", "U", "L", "L">>), CStr(<<" ", "n", "u", "l", "l", "\n">>),
     CStr(<<"u", "n", "d", "e", "f", "i", "n", "e", "d">>)}

\* The field k of the record d holds a missing value
Missing(d, k) == (IF k \in DOMAIN d THEN d[k] ELSE CNone) \in MissingValues

Reported(marker) ==
    \E n \in DOMAIN returned.missing_fields : returned.missing_fields[n] = marker

\* C19: for every required partner and company field the value is reported
\* missing exactly when it is null, trims to the empty string, equals
\* none/null/undefined in any case, or starts with "..." or "___"; every
\* other value counts as present.
C19_MissingExactlyWhenPlaceholder ==
    Judged =>
       /\ \A n \in DOMAIN PartnersOf(args.contract) :
             \A m \in DOMAIN PartnerFieldOrder :
                Reported("partner_" \o ToString(n - 1) \o "_" \o PartnerFieldOrder[m])
                <=> Missing(PartnersOf(args.contract)[n], PartnerFieldOrder[m])
       /\ CompanyOf(args.contract) # EmptyDict =>
             \A m \in DOMAIN CompanyFieldOrder :
                Reported("company_" \o CompanyFieldOrder[m])
                <=> Missing(CompanyOf(args.contract), CompanyFieldOrder[m])

\* A cpf of "None" is reported, and it is the only marker
C19_Witness ==
    /\ Judged
    /\ PartnersOf(args.contract) =
          <<[FilledPartner EXCEPT !["cpf"] = CStr(<<"N", "o", "n", "e">>)]>>
    /\ returned.missing_fields = <<"partner_0_cpf">>

\* The markers of one record: one per missing field, in the order given
MarkersOf(d, order, prefix) ==
    LET missing == SelectSeq(order, LAMBDA k : Missing(d, k))
    IN [n \in DOMAIN missing |-> prefix \o missing[n]]

RECURSIVE PartnerMarkersFrom(_, _)
PartnerMarkersFrom(ps, n) ==
    IF n > Len(ps) THEN <<>>
    ELSE MarkersOf(ps[n], PartnerFieldOrder, "partner_" \o ToString(n - 1) \o "_")
         \o PartnerMarkersFrom(ps, n + 1)

\* C20 as stated: the list holds exactly one partner_<index>_<field> marker
\* per missing partner field and one company_<field> marker per missing
\* company field, also when the company record is empty or absent, partner
\* markers by index and field order first, company markers after them.
C20_FieldMarkersAlways ==
    Judged =>
       SelectSeq(returned.missing_fields, LAMBDA m : m # "no_partners_added")
       = PartnerMarkersFrom(PartnersOf(args.contract), 1)
         \o MarkersOf(CompanyOf(args.contract), CompanyFieldOrder, "company_")

\* C20: the list holds, after no_partners_added when there is no partner,
\* exactly one partner_<index>_<field> marker per missing partner field by
\* index and field order, then one company_<field> marker per missing
\* company field in field order; an empty or absent company record gives
\* the single marker no_company_data in their place.
C20_MarkersInOrder ==
    Judged =>
       returned.missing_fields =
          (IF PartnersOf(args.contract) = <<>> THEN <<"no_partners_added">>
           ELSE <<>>)
          \o PartnerMarkersFrom(PartnersOf(args.contract), 1)
          \o (IF CompanyOf(args.contract) = EmptyDict THEN <<"no_company_data">>
              ELSE MarkersOf(CompanyOf(args.contract), CompanyFieldOrder,
                             "company_"))

\* Two partners and a company record with two unfilled fields each
C20_Witness ==
    /\ Judged
    /\ Len(PartnersOf(args.contract)) = 2
    /\ returned.missing_fields =
          <<"partner_0_name", "partner_0_percent", "partner_1_civil_state",
            "partner_1_cpf", "company_company_name", "company_start_date">>

----------------------------------------------------------------------------
(* Properties of the dashboard, the download and the substituter *)

Called(fn) == args.fn = fn /\ returned.at = "returned"

\* The company record of the row being downloaded
StoredCompany ==
    IF "company_data" \in DOMAIN args.row /\ args.row["company_data"].t = "dict"
    THEN args.row["company_data"].d ELSE EmptyDict

\* C21: the dashboard's status and counts and the download's choice to apply
\* placeholders follow the status recomputed from field completeness, never
\* the stored status alone: a row stored as completed whose required fields
\* are not all filled is treated as a draft.
C21_RecomputedStatusDecides ==
    /\ Called("index") =>
          /\ \A n \in DOMAIN returned.contracts :
                returned.contracts[n]["effective_status"] =
                   IF returned.contracts[n]["missing_fields"] = <<>>
                   THEN "completed" ELSE "draft"
          /\ returned.drafts_count =
                Cardinality({n \in DOMAIN returned.contracts :
                               returned.contracts[n]["missing_fields"] # <<>>})
    /\ (Called("download_contract") /\ returned.context # NoContext) =>
          ((\E n \in DOMAIN CompanyFieldOrder :
               Missing(StoredCompany, CompanyFieldOrder[n]))
           => returned.placeholders)

\* The values that are null, empty or whitespace-only
EmptyValues == {CNone, CStr(<<>>), CStr(<<" ">>)}

\* The partner record handed to the substituter has only empty values (an
\* id, if it has one, is 0 or empty)
AllEmptyRecord(x) ==
    /\ x.t = "dict"
    /\ DOMAIN x.d # {}
    /\ \A k \in DOMAIN x.d : x.d[k] \in EmptyValues \cup {CInt(0)}

\* The labels of the table, as the document shows them
FixedLabels ==
    [name |-> <<"[", "N", "O", "M", "E", " ", "C", "O", "M", "P", "L", "E",
                "T", "O", "]">>,
     cpf |-> <<"[", "C", "P", "F", "]">>,
     rg |-> <<"[", "R", "G", "]">>,
     nationality |-> <<"[", "N", "A", "C", "I", "O", "N", "A", "L", "I", "D",
                       "A", "D", "E", "]">>,
     civil_state |-> <<"[", "E", "S", "T", "A", "D", "O", " ", "C", "I", "V",
                       "I", "L", "]">>]

\* Upper-cased field names with spaces for underscores
GenericLabels ==
    [id |-> <<"[", "I", "D", "]">>,
     regime |-> <<"[", "R", "E", "G", "I", "M", "E", "]">>,
     birth_date |-> <<"[", "B", "I", "R", "T", "H", " ", "D", "A", "T", "E",
                      "]">>,
     quotas |-> <<"[", "Q", "U", "O", "T", "A", "S", "]">>,
     amount |-> <<"[", "A", "M", "O", "U", "N", "T", "]">>,
     percent |-> <<"[", "P", "E", "R", "C", "E", "N", "T", "]">>]

\* C22: apply_placeholders on a partner record whose fields are all empty
\* returns a record with the same keys in which every value is a non-empty
\* string that starts with "[" and ends with "]"; the fields of the label
\* table get their fixed label and all others the upper-cased field name
\* with spaces for underscores.
C22_AllEmptyGetsBracketedLabels ==
    (Called("apply_placeholders") /\ AllEmptyRecord(args.data)) =>
       /\ returned.new_data.t = "dict"
       /\ DOMAIN returned.new_data.d = DOMAIN args.data.d
       /\ \A k \in DOMAIN args.data.d :
             LET v == returned.new_data.d[k]
             IN /\ v.t = "str"
                /\ Len(v.c) >= 2
                /\ v.c[1] = "["
                /\ v.c[Len(v.c)] = "]"
                /\ k \in DOMAIN FixedLabels => v.c = FixedLabels[k]
                /\ k \in DOMAIN GenericLabels => v.c = GenericLabels[k]

\* The record of the form with every field '' came back with its labels
C22_Witness ==
    /\ Called("apply_placeholders")
    /\ args.data = PDict([k \in PartnerFields |-> CStr(<<>>)])
    /\ returned.new_data.d["name"].c = FixedLabels["name"]
    /\ returned.new_data.d["cpf"].c = FixedLabels["cpf"]
    /\ returned.new_data.d["birth_date"].c = GenericLabels["birth_date"]

\* A scalar that is null, empty or whitespace-only
Blank(v) ==
    \/ v.t = "none"
    \/ v.t = "str" /\ \A n \in DOMAIN v.c : v.c[n] \in Whitespace

\* y is x with nothing but blank scalars replaced, at every nesting level
RECURSIVE OnlyBlanksReplaced(_, _)
OnlyBlanksReplaced(x, y) ==
    IF x.t = "dict"
    THEN /\ y.t = "dict"
         /\ DOMAIN y.d = DOMAIN x.d
         /\ \A k \in DOMAIN x.d :
               IF x.d[k].t \in {"dict", "list"}
               THEN OnlyBlanksReplaced(x.d[k], y.d[k])
               ELSE IF Blank(x.d[k]) THEN y.d[k] # x.d[k]
               ELSE y.d[k] = x.d[k]
    ELSE IF x.t = "list"
    THEN /\ y.t = "list"
         /\ Len(y.l) = Len(x.l)
         /\ \A n \in DOMAIN x.l : OnlyBlanksReplaced(x.l[n], y.l[n])
    ELSE y = x

\* C23: apply_placeholders returns every non-empty scalar unchanged at every
\* nesting level, a numeric value such as a partner id of 0 included,
\* replaces only the scalars that are null, empty or whitespace-only, and
\* leaves its input as it was.
C23_OnlyBlankScalarsReplaced ==
    Called("apply_placeholders") =>
       /\ OnlyBlanksReplaced(args.data, returned.new_data)
       /\ returned.data = args.data

\* The variables the contract template refers to
TemplateVariables ==
    {"company_name", "company_address", "company_object", "company_cnae_list",
     "start_date", "capital_currency", "capital_amount_text", "total_quotas",
     "quota_value", "forum_city", "signature_date", "administrator_names",
     "partners"}
TemplatePartnerVariables ==
    {"name", "nationality", "civil_state", "regime", "profession",
     "birth_date", "cpf", "address", "quotas", "amount", "percent"}

\* C24: the mapping handed to the renderer by generate, and by
\* download_contract after apply_placeholders, has a key for every variable
\* of the template and, in every partner, for every partner variable.
C24_EveryTemplateVariablePresent ==
    ((Called("generate") \/ (Called("download_contract") /\ returned.placeholders))
     /\ returned.context # NoContext) =>
       /\ TemplateVariables \subseteq DOMAIN returned.context.d
       /\ returned.context.d["partners"].t = "list"
       /\ \A n \in DOMAIN returned.context.d["partners"].l :
             TemplatePartnerVariables
                \subseteq DOMAIN returned.context.d["partners"].l[n].d

\* C27: a generate request that fails because the template is missing or
\* the renderer raises is answered with an error and leaves the stored
\* contracts, their status included, as they were before the request.
C27_FailedGenerateLeavesStoreAlone ==
    (Called("generate") /\ (~args.template \/ args.render_raises)) =>
       /\ returned.response # "download.html"
       /\ returned.stored = args.stored

----------------------------------------------------------------------------
(* Properties of the records and files of /process *)

\* C25: after /process the partner record at position i of the partner list
\* has id == i, whatever keys the merged extraction results hold.
C25_IdEqualsIndex ==
    \A n \in DOMAIN partners_data :
       /\ "id" \in DOMAIN partners_data[n]
       /\ partners_data[n]["id"] = PyInt(n - 1)

\* The fields of a partner that the form shows
FormFields ==
    {"name", "nationality", "civil_state", "regime", "profession",
     "birth_date", "cpf", "address", "quotas", "amount", "percent"}

\* C28: whatever the extractors returned, every partner record handed to the
\* form holds all of the form's fields, and each of their values is a
\* string, the empty string where nothing was recognized.
C28_EveryFieldAString ==
    form.rendered =>
       \A n \in DOMAIN form.partners :
          \A k \in FormFields :
             /\ k \in DOMAIN form.partners[n]
             /\ form.partners[n][k].t = "str"

\* C29: the address composition of /process and the one of
\* /api/extract-document give the same address for every address extraction
\* result, also when only one of city and state is present or zip_code is
\* empty.
C29_SameAddressAtBothSites ==
    (Composed /\ returned.site = "process") =>
       LET other == compose_address_single(args.addr_data)
       IN /\ returned.exc = ""
          /\ returned.set = other.set
          /\ returned.set => returned.value = other.value

\* C30: once a document has been processed no file created for it is left in
\* the upload folder, neither the saved upload nor the raster image, on the
\* identity and company path as on the address path; and the rasterizer
\* never writes its image over the PDF it reads.
C30_NoFileRemains ==
    /\ pc \in {"identity_loop", "address_loop", "company_loop", "done"} =>
          disk = {}
    /\ img_path # NoPath => img_path # filepath

\* A document is being extracted: it was saved and its result is not yet
\* taken by the loop that saved it
InFlight ==
    pc \in {"route", "mistral", "openai_text", "rasterize", "vision_img",
            "vision_pdf", "vision_direct", "return", "addr_rasterize",
            "addr_extract"}

\* The uploads of partner idx and of the company, by their saved names
IdentityPaths(idx) ==
    {upload_path("p" \o ToString(idx) \o "_", f) : f \in Filenames}
AddressPaths(idx) ==
    {upload_path("addr_" \o ToString(idx) \o "_", f) : f \in Filenames}
CompanyPaths == {upload_path("company_", f) : f \in Filenames}

\* The document in flight belongs to the partner whose turn it is, and a
\* company document is in flight only when every partner is finished
OwnerInTurn ==
    InFlight =>
       /\ role = "identity" =>
             (filepath \in IdentityPaths(i) /\ i < partner_count
              /\ Len(partners_data) = i)
       /\ role = "address" =>
             (filepath \in AddressPaths(i) /\ i < partner_count
              /\ Len(partners_data) = i)
       /\ role = "company" =>
             (filepath \in CompanyPaths /\ i = partner_count
              /\ Len(partners_data) = partner_count)
       /\ role \in {"identity", "address", "company"}

\* C26: within one /process request the documents are handled one at a
\* time: every extraction step and provider call is made for the document
\* in flight, no document starts and no partner ends before the document in
\* flight has run to its end, the partners come in the order of their index,
\* and the company documents come after all partners.
C26_OneDocumentAtATime ==
    /\ []OwnerInTurn
    /\ [][/\ (calls' # calls /\ calls' # <<>>) =>
                (InFlight /\ filepath' = filepath
                 /\ calls' = Append(calls, calls'[Len(calls')]))
          /\ InFlight =>
                (filepath' = filepath /\ i' = i /\ partners_data' = partners_data
                 /\ role' = role)
          /\ i' # i => (i' = i + 1 /\ pc = "address_loop")]_vars

\* A provider call for a document of partner 1, after a document of partner 0
\* was merged and partner 0 was finished
C26_Witness ==
    /\ pc = "return"
    /\ role = "identity"
    /\ i = 1
    /\ filepath \in IdentityPaths(1)
    /\ calls # <<>>
    /\ Len(partners_data) = 1
    /\ partners_data[1]["name"] = PyStr("Ana")

====
